---- MODULE Spec2Model ----
(***************************************************************************)
(* Authentication / session / ownership subsystem of the Persona Arcana    *)
(* backend: the identity store (models/User.js), the token service and the *)
(* authorization middleware (middleware/auth.js), the Google OAuth verify  *)
(* callback and JWT strategy (config/passport.js), the auth routes         *)
(* (routes/auth.js), the user routes (routes/users.js) and the upload      *)
(* routes (routes/upload.js), the environment validation                   *)
(* (config/environment.js) and the start of the server (server.js); and   *)
(* the mobile client's AuthProvider (AuthContext.js) over its AuthService. *)
(*                                                                         *)
(* Time is counted in days.  null / undefined is the string "none".        *)
(***************************************************************************)
EXTENDS Integers, Sequences, FiniteSets, TLC

VARIABLES
  users,    \* the User collection: a function from _id to document
  nextId,   \* number of ObjectIds handed out so far
  now,      \* the clock, in days
  cb,       \* per in-flight GET /auth/google/callback request: its position and locals
  resp,     \* the last API request and its response (SpecApi)
  nodeEnv,  \* process.env.NODE_ENV
  tkUser,   \* SpecToken: the identity a token is generated for
  tkTok,    \* SpecToken: the token under test
  tkOut,    \* SpecToken: what the verification paths answered for tkTok
  sessions, \* the session store: per user agent, its session record
  boot,     \* the server process from its start to app.listen, and its environment
  own,      \* the last call of requireOwnership: its request and what it did
  mob       \* the mobile client: AuthProvider state, local storage and its auth operations in flight

vars == <<users, nextId, now, cb, resp, nodeEnv, tkUser, tkTok, tkOut, sessions, boot, own, mob>>

None == "none"

----------------------------------------------------------------------------
(* Bounds of the model *)

MaxUsers == 2
MaxNow == 45
TickDays == 15

----------------------------------------------------------------------------
(* Program constants *)

TOKEN_TTL_DAYS == 30
JWT_SECRET == "server-secret"
ISSUER == "persona-arcana-api"
AUDIENCE == "persona-arcana-mobile"

----------------------------------------------------------------------------
(* Value domains *)

IdSeq == <<"u1", "u2", "u3", "u4">>
ObjectIds == {IdSeq[i] : i \in 1..MaxUsers}
GoogleIds == {"g1", "g2"}
RawEmails == {"a@x", "A@x", "b@x"}
Names == {"", "n1", "n2"}
Images == {None, "img"}
Steps == {"welcome", "first-entry", "persona-intro", "completed"}

\* the `lowercase: true` setter of the email path
Lower(e) == IF e = "A@x" THEN "a@x" ELSE e

NewUserDocStreakOne(id, googleId, email, name, googleImage) ==
  [id |-> id, googleId |-> googleId, email |-> Lower(email), name |-> name,
   profileImage |-> None, googleImage |-> googleImage,
   prefs |-> "default",
   onbStep |-> "welcome", onbCompleted |-> FALSE,
   totalEntries |-> 0, streakDays |-> 1]

\* the schema defaults of a new document
NewUserDoc(id, googleId, email, name, googleImage) ==
  [id |-> id, googleId |-> googleId, email |-> Lower(email), name |-> name,
   profileImage |-> None, googleImage |-> googleImage,
   prefs |-> "default",
   onbStep |-> "welcome", onbCompleted |-> FALSE,
   totalEntries |-> 0, streakDays |-> 0]

NoDoc == NewUserDoc(None, None, None, None, None)

\* User.findById
FindById(store, id) ==
  IF id \in DOMAIN store THEN store[id] ELSE NoDoc

----------------------------------------------------------------------------
(* Token service: jsonwebtoken as used by middleware/auth.js *)

NoToken == [kind |-> "none", userId |-> None, email |-> None, name |-> None,
            iss |-> None, aud |-> None, iat |-> 0, exp |-> 0, sig |-> None]
Malformed == [NoToken EXCEPT !.kind = "garbage"]

\* jwt.sign(payload, secret, {expiresIn: '30d', issuer, audience})
JwtSign(payload, secret, ttl, issuer, audience, clock) ==
  [kind |-> "jwt", userId |-> payload.userId, email |-> payload.email,
   name |-> payload.name, iss |-> issuer, aud |-> audience,
   iat |-> clock, exp |-> clock + ttl, sig |-> secret]

generateTokenOneDay(user, clock) ==
  JwtSign([userId |-> user.id, email |-> user.email, name |-> user.name],
          JWT_SECRET, 1, ISSUER, AUDIENCE, clock)

generateToken(user, clock) ==
  JwtSign([userId |-> user.id, email |-> user.email, name |-> user.name],
          JWT_SECRET, TOKEN_TTL_DAYS, ISSUER, AUDIENCE, clock)

JwtOk(tok) == [ok |-> TRUE, err |-> None, msg |-> None, payload |-> tok]
JwtErr(name, msg) == [ok |-> FALSE, err |-> name, msg |-> msg, payload |-> NoToken]

\* jwt.verify(token, secret, options): options carry the expected issuer and
\* audience, "none" when the caller passes none
JwtVerify(tok, secret, issuer, audience, clock) ==
  IF tok.kind # "jwt" THEN JwtErr("JsonWebTokenError", "jwt malformed")
  ELSE IF tok.sig # secret THEN JwtErr("JsonWebTokenError", "invalid signature")
  ELSE IF clock >= tok.exp THEN JwtErr("TokenExpiredError", "jwt expired")
  ELSE IF audience # None /\ tok.aud # audience
    THEN JwtErr("JsonWebTokenError", "jwt audience invalid")
  ELSE IF issuer # None /\ tok.iss # issuer
    THEN JwtErr("JsonWebTokenError", "jwt issuer invalid")
  ELSE JwtOk(tok)

verifyToken(tok, clock) == JwtVerify(tok, JWT_SECRET, None, None, clock)

----------------------------------------------------------------------------
(* Authorization middleware: config/passport.js (JWT strategy) and
   middleware/auth.js *)

\* the Authorization header of a request
NoHeader == [scheme |-> None, tok |-> NoToken]
Bearer(tok) == [scheme |-> "Bearer", tok |-> tok]
Basic(tok) == [scheme |-> "Basic", tok |-> tok]

\* ExtractJwt.fromAuthHeaderAsBearerToken()
ExtractBearer(hdr) ==
  IF hdr.scheme = "Bearer" /\ hdr.tok.kind # "none" THEN hdr.tok ELSE NoToken

PassportSuccess(user) == [kind |-> "success", user |-> user, info |-> None]
PassportFail(info) == [kind |-> "fail", user |-> NoDoc, info |-> info]
\* done(error, false): the lookup of the subject threw
PassportError(info) == [kind |-> "error", user |-> NoDoc, info |-> info]

\* new JwtStrategy({jwtFromRequest, secretOrKey}, verify): no issuer and no
\* audience are configured
JwtStrategy(hdr, store, clock) ==
  LET token == ExtractBearer(hdr)
      v == JwtVerify(token, JWT_SECRET, None, None, clock)
  IN  IF token.kind = "none" THEN PassportFail("No auth token")
      ELSE IF ~v.ok THEN PassportFail(v.msg)
      ELSE IF v.payload.userId \in DOMAIN store
        THEN PassportSuccess(store[v.payload.userId])
      ELSE PassportFail(None)

\* what a middleware does: call next() or answer the request
MwNext(user) == [next |-> TRUE, status |-> 0, code |-> None, error |-> None, user |-> user]
MwReply(status, code, error) ==
  [next |-> FALSE, status |-> status, code |-> code, error |-> error, user |-> NoDoc]

\* a requireAuth that calls next() whatever the strategy answers
requireAuthPassThrough(hdr, store, clock) ==
  LET r == JwtStrategy(hdr, store, clock)
  IN  IF r.kind = "success" THEN MwNext(r.user) ELSE MwNext(NoDoc)

\* passport.authenticate('jwt', {session: false}, callback)(req, res, next)
requireAuth(hdr, store, clock) ==
  LET r == JwtStrategy(hdr, store, clock)
  IN  IF r.kind = "error" THEN MwReply(500, "AUTH_ERROR", "Authentication error")
      ELSE IF r.kind # "success"
        THEN MwReply(401, "UNAUTHORIZED",
                     IF r.info # None THEN r.info ELSE "Authentication required")
      ELSE MwNext(r.user)

\* passport.authenticate('jwt', {session: false}) used as a route middleware,
\* with no callback: a failure ends the response with 401 and the text
\* "Unauthorized"
PassportAuthenticate(hdr, store, clock) ==
  LET r == JwtStrategy(hdr, store, clock)
  IN  IF r.kind = "success" THEN MwNext(r.user)
      ELSE MwReply(401, None, "Unauthorized")

\* the callback optionalAuth gives to passport.authenticate: an error is
\* logged, req.user = user || null, next()
optionalAuthCallback(r) ==
  IF r.kind = "success" THEN MwNext(r.user) ELSE MwNext(NoDoc)

optionalAuth(hdr, store, clock) == optionalAuthCallback(JwtStrategy(hdr, store, clock))

validateToken(hdr, store, clock) ==
  IF hdr.scheme # "Bearer" THEN MwReply(401, "NO_TOKEN", "No token provided")
  ELSE LET decoded == verifyToken(hdr.tok, clock)
       IN  IF decoded.ok
             THEN IF decoded.payload.userId \notin DOMAIN store
                    THEN MwReply(401, "USER_NOT_FOUND", "User not found")
                    ELSE MwNext(store[decoded.payload.userId])
           ELSE IF decoded.err = "JsonWebTokenError"
             THEN MwReply(401, "INVALID_TOKEN", "Invalid token")
           ELSE IF decoded.err = "TokenExpiredError"
             THEN MwReply(401, "TOKEN_EXPIRED", "Token expired")
           ELSE MwReply(500, "TOKEN_VALIDATION_ERROR", "Token validation failed")

\* requireOwnership(resourceUserIdField): user is req.user, and param, body
\* and resource are req.params[field], req.body[field] and
\* req.resource[field], "none" when absent; the first of the three that is
\* there is taken as the owner id
requireOwnership(user, param, body, resource) ==
  LET resourceUserId == IF param # None THEN param
                        ELSE IF body # None THEN body
                        ELSE resource
  IN  IF user = None THEN MwReply(401, "UNAUTHORIZED", "Authentication required")
      ELSE IF resourceUserId = None
        THEN MwReply(400, "RESOURCE_USER_ID_MISSING", "Resource user ID not found")
      ELSE IF user # resourceUserId
        THEN MwReply(403, "ACCESS_DENIED",
                     "Access denied. You can only access your own resources.")
      ELSE MwNext(NoDoc)

\* no call of requireOwnership yet
NoOwn == [called |-> FALSE, user |-> None, param |-> None, body |-> None,
          resource |-> None, out |-> MwReply(0, None, None)]

\* the mobile client: AsyncStorage without the 'authToken' and 'user' entries
NoStorage == [authToken |-> None, user |-> None]

\* an auth operation of AuthProvider that is not running, and the values an
\* operation in flight holds in its closure
IdleOp == [pc |-> "idle", token |-> None, user |-> None]

\* signOut not running; backend and removed record how its last run went
NoSignOut == [pc |-> "idle", token |-> None, backend |-> None, removed |-> FALSE]

\* AuthProvider as constructed by useState, before its mount effect
NoMobile == [user |-> None, authToken |-> None, loading |-> TRUE,
             isAuthenticated |-> FALSE, error |-> None, storage |-> NoStorage,
             check |-> IdleOp, signIn |-> IdleOp, out |-> NoSignOut, upd |-> IdleOp]

\* SpecToken: no verification path has been called on the token yet
NoOut == [at |-> -1, verify |-> JwtErr(None, None),
          validate |-> MwReply(0, None, None), require |-> MwReply(0, None, None),
          optional |-> MwReply(0, None, None), optionalOnError |-> MwReply(0, None, None)]

----------------------------------------------------------------------------
(* Errors and the error-handling middleware (middleware/errorHandler.js) *)

NoErr == [name |-> None, code |-> None, message |-> None, statusCode |-> 0, field |-> None]
PlainError(message) == [NoErr EXCEPT !.name = "Error", !.message = message]
TypeError(message) == [NoErr EXCEPT !.name = "TypeError", !.message = message]
APIError(message, statusCode, code) ==
  [NoErr EXCEPT !.name = "APIError", !.message = message,
                !.statusCode = statusCode, !.code = code]
\* mongoose: a required path is missing or empty
ValidationError(field) ==
  [NoErr EXCEPT !.name = "ValidationError", !.message = "Path is required.", !.field = field]
\* MongoDB: E11000 duplicate key on a unique index
DuplicateKeyError(field) ==
  [NoErr EXCEPT !.name = "MongoServerError", !.code = "11000",
                !.message = "E11000 duplicate key error", !.field = field]

\* an HTTP response: a JSON envelope or a redirect
NoResp == [kind |-> None, status |-> 0, code |-> None, error |-> None,
           location |-> None, message |-> None, token |-> NoToken, data |-> NoDoc,
           list |-> <<>>]
Json(status, code, error) ==
  [NoResp EXCEPT !.kind = "json", !.status = status, !.code = code, !.error = error]
JsonOk(status, data) ==
  [NoResp EXCEPT !.kind = "json", !.status = status, !.data = data]
\* a plain-text body, as res.end(...) sends it
Text(status, body) ==
  [NoResp EXCEPT !.kind = "text", !.status = status, !.message = body]
Redirect(location, message, token, data) ==
  [NoResp EXCEPT !.kind = "redirect", !.status = 302, !.location = location,
                 !.message = message, !.token = token, !.data = data]

errorHandler(err, env) ==
  IF err.name = "APIError" THEN Json(err.statusCode, err.code, err.message)
  ELSE IF err.name = "ValidationError"
    THEN Json(400, "VALIDATION_ERROR", "Validation failed: Path is required.")
  ELSE IF err.name = "CastError" THEN Json(400, "INVALID_ID", "Invalid ID format")
  ELSE IF err.code = "11000" THEN Json(409, "DUPLICATE_ENTRY", "field already exists")
  ELSE IF err.code = "LIMIT_FILE_SIZE"
    THEN Json(413, "FILE_TOO_LARGE", "File too large. Maximum size is 5MB.")
  ELSE IF err.code = "LIMIT_UNEXPECTED_FILE"
    THEN Json(400, "INVALID_FILE_FIELD", "Unexpected file field")
  ELSE IF err.name = "JsonWebTokenError" THEN Json(401, "INVALID_TOKEN", "Invalid token")
  ELSE IF err.name = "TokenExpiredError" THEN Json(401, "TOKEN_EXPIRED", "Token expired")
  ELSE Json(IF err.statusCode # 0 THEN err.statusCode ELSE 500, "INTERNAL_ERROR",
            IF env = "production" THEN "Internal server error" ELSE err.message)

\* an API request's body and file, and the last exchange kept in resp
EmptyBody == [name |-> None, profileImage |-> None, prefs |-> None, fileUrl |-> None,
              email |-> None, googleId |-> None, onbStep |-> None]
NoFile == [mime |-> None, big |-> FALSE]
NoRequest == [ep |-> None, hdr |-> NoHeader, id |-> None, body |-> EmptyBody,
              file |-> NoFile, limited |-> FALSE, cookie |-> None]
\* a user agent without a session record in the session store
NoSession == [exists |-> FALSE, mobileRedirectUri |-> None, user |-> None]
NoExchange == [req |-> NoRequest, res |-> NoResp, ran |-> FALSE, user |-> None]

----------------------------------------------------------------------------
(* The identity store: models/User.js on MongoDB *)

StoreResult(err, store, doc) == [err |-> err, store |-> store, doc |-> doc]

\* User.findOne({googleId})
FindOneByGoogleId(store, gid) ==
  IF \E id \in DOMAIN store : store[id].googleId = gid
    THEN store[CHOOSE id \in DOMAIN store : store[id].googleId = gid]
    ELSE NoDoc

\* the unique indexes {email: 1} and {googleId: 1} (sparse): the index an
\* insert or update of doc would violate, "none" when there is none
UniqueViolationEmailOnly(store, doc) ==
  IF \E id \in DOMAIN store \ {doc.id} : store[id].email = doc.email
    THEN "email"
  ELSE None

UniqueViolationGoogleIdOnly(store, doc) ==
  IF doc.googleId # None /\ \E id \in DOMAIN store \ {doc.id} : store[id].googleId = doc.googleId
    THEN "googleId"
  ELSE None

UniqueViolation(store, doc) ==
  IF doc.googleId # None /\ \E id \in DOMAIN store \ {doc.id} : store[id].googleId = doc.googleId
    THEN "googleId"
  ELSE IF \E id \in DOMAIN store \ {doc.id} : store[id].email = doc.email
    THEN "email"
  ELSE None

\* the schema validators that can fail: email and name are required
SchemaViolation(doc) ==
  IF doc.email = None THEN "email"
  ELSE IF doc.name = None \/ doc.name = "" THEN "name"
  ELSE None

\* User.create(fields) / new User(fields).save(): validate, then insert
CreateUser(store, n, googleId, email, name, googleImage) ==
  LET doc == NewUserDoc(IdSeq[n + 1], googleId, email, name, googleImage)
  IN  IF SchemaViolation(doc) # None
        THEN StoreResult(ValidationError(SchemaViolation(doc)), store, NoDoc)
      ELSE IF UniqueViolation(store, doc) # None
        THEN StoreResult(DuplicateKeyError(UniqueViolation(store, doc)), store, NoDoc)
      ELSE StoreResult(NoErr, (doc.id :> doc) @@ store, doc)

\* user.save() of a document that was loaded as `loaded` and then had name,
\* googleImage and email assigned: validate, then write the modified paths
\* (those whose assigned value differs from the loaded one) to the stored
\* document; the other paths of the stored document stay as they are
SaveUser(store, loaded, doc) ==
  IF SchemaViolation(doc) # None
    THEN StoreResult(ValidationError(SchemaViolation(doc)), store, NoDoc)
  ELSE IF doc.id \notin DOMAIN store
    THEN StoreResult([NoErr EXCEPT !.name = "DocumentNotFoundError",
                                   !.message = "No document found for query"],
                     store, NoDoc)
  ELSE LET stored == [store[doc.id] EXCEPT
                        !.name = IF doc.name # loaded.name THEN doc.name ELSE @,
                        !.googleImage = IF doc.googleImage # loaded.googleImage
                                          THEN doc.googleImage ELSE @,
                        !.email = IF doc.email # loaded.email THEN doc.email ELSE @]
       IN  IF UniqueViolation(store, stored) # None
             THEN StoreResult(DuplicateKeyError(UniqueViolation(store, stored)), store, NoDoc)
             ELSE StoreResult(NoErr, [store EXCEPT ![doc.id] = stored], doc)

----------------------------------------------------------------------------
(* Environment validation (config/environment.js) and the start of the
   server process (server.js) *)

\* the validated variables of envSchema that the model follows, in the
\* order of the schema
EnvVars == <<"NODE_ENV", "MONGODB_URI", "DO_SPACES_BUCKET", "JWT_SECRET",
             "GOOGLE_CLIENT_ID">>
EnvVarSet == {EnvVars[i] : i \in 1..Len(EnvVars)}

\* .required() in the schema
Required(v) == v # "NODE_ENV"

\* the rules of a variable's schema, in the order Joi applies them
RulesOf(v) ==
  IF v = "NODE_ENV" THEN <<"any.only">>
  ELSE IF v = "MONGODB_URI" THEN <<"string.uri">>
  ELSE IF v = "DO_SPACES_BUCKET" THEN <<"string.min", "string.max", "string.pattern.base">>
  ELSE IF v = "JWT_SECRET" THEN <<"string.min">>
  ELSE <<"string.pattern.base">>

\* a value of process.env[v]: absent, the empty string, or a string that
\* breaks the given rules of the variable
Absent == [present |-> FALSE, empty |-> FALSE, breaks |-> {}]
EmptyString == [present |-> TRUE, empty |-> TRUE, breaks |-> {}]
Breaking(rules) == [present |-> TRUE, empty |-> FALSE, breaks |-> rules]

\* the values each variable is drawn from: "A" as a bucket name is too short
\* and does not match the pattern
ValuesOf(v) ==
  {Absent, Breaking({})}
  \cup (IF v = "NODE_ENV" THEN {Breaking({"any.only"})}
        ELSE IF v = "MONGODB_URI" THEN {Breaking({"string.uri"})}
        ELSE IF v = "DO_SPACES_BUCKET"
          THEN {Breaking({"string.pattern.base"}),
                Breaking({"string.min", "string.pattern.base"})}
        ELSE IF v = "JWT_SECRET" THEN {EmptyString, Breaking({"string.min"})}
        ELSE {Breaking({"string.pattern.base"})})

Environments == {e \in [EnvVarSet -> UNION {ValuesOf(v) : v \in EnvVarSet}] :
                   \A v \in EnvVarSet : e[v] \in ValuesOf(v)}

Detail(v, type) == [key |-> v, type |-> type]

RECURSIVE RuleErrors(_, _, _, _)
RuleErrors(v, val, rules, i) ==
  IF i > Len(rules) THEN <<>>
  ELSE (IF rules[i] \in val.breaks THEN <<Detail(v, rules[i])>> ELSE <<>>)
       \o RuleErrors(v, val, rules, i + 1)

\* the errors Joi finds on one key: an absent or empty value ends the key's
\* validation, the rules of a present value are all applied
KeyErrors(v, val) ==
  IF ~val.present THEN (IF Required(v) THEN <<Detail(v, "any.required")>> ELSE <<>>)
  ELSE IF val.empty THEN <<Detail(v, "string.empty")>>
  ELSE RuleErrors(v, val, RulesOf(v), 1)

RECURSIVE SchemaErrors(_, _)
SchemaErrors(env, i) ==
  IF i > Len(EnvVars) THEN <<>>
  ELSE KeyErrors(EnvVars[i], env[EnvVars[i]]) \o SchemaErrors(env, i + 1)

\* envSchema.validate(process.env, {abortEarly, stripUnknown: true}).error.details
JoiValidate(env, abortEarly) ==
  LET all == SchemaErrors(env, 1)
  IN  IF abortEarly /\ Len(all) > 0 THEN <<all[1]>> ELSE all

\* the same with abortEarly: true
validateEnvironmentAbortEarly(env) ==
  LET details == JoiValidate(env, TRUE)
  IN  [threw |-> Len(details) > 0, count |-> Len(details), printed |-> details]

\* validateEnvironment(): prints one line per detail and throws
\* "Environment validation failed: <n> errors found"
validateEnvironment(env) ==
  LET details == JoiValidate(env, FALSE)
  IN  [threw |-> Len(details) > 0, count |-> Len(details), printed |-> details]

NoValidation == [threw |-> FALSE, count |-> 0, printed |-> <<>>]

\* what loading server.js's modules throws before validateEnvironment is
\* called: config/passport.js constructs GoogleStrategy and JwtStrategy from
\* process.env when it is required
LoadError(env) ==
  IF ~env["GOOGLE_CLIENT_ID"].present
    THEN TypeError("OAuth2Strategy requires a clientID option")
  ELSE IF ~env["JWT_SECRET"].present \/ env["JWT_SECRET"].empty
    THEN TypeError("JwtStrategy requires a secret or key")
  ELSE NoErr

\* exitCode -1: the process has not exited
NoBoot == [pc |-> "none", env |-> [v \in EnvVarSet |-> Absent], stderr |-> NoValidation,
           uncaught |-> NoErr, exitCode |-> -1, db |-> FALSE, listening |-> FALSE,
           script |-> NoValidation, scriptRan |-> FALSE]

----------------------------------------------------------------------------
(* The application: the order in which server.js mounts its middleware.
   The routers are mounted when the module loads; the session and passport
   middleware are appended by start(), after the error handlers. *)

AppStack ==
  <<"helmet", "cors", "compression", "sentry", "requestId", "logger",
    "performanceMonitor", "json", "urlencoded",
    "/health", "/auth", "/api/users", "/api/upload", "/", "/api",
    "errorLogger", "sentryErrorHandler", "notFound", "errorHandler",
    "session", "passport.initialize", "passport.session">>

IndexOf(seq, x) == CHOOSE i \in 1..Len(seq) : seq[i] = x

\* req.session exists in a router's handlers only when the session
\* middleware comes before the router in the stack
SessionMounted(router) == IndexOf(AppStack, "session") < IndexOf(AppStack, router)

----------------------------------------------------------------------------
(* OAuth exchange flow: the GoogleStrategy verify callback of
   config/passport.js and GET /auth/google/callback of routes/auth.js *)

Procs == {"p1", "p2"}

NoProfile == [id |-> None, displayName |-> None, email |-> None, photo |-> None]

\* the provider profiles callbacks are drawn from: complete profiles, profiles
\* with an empty display name and profiles without an email; the photo
\* changes with the display name
Profiles ==
  {[id |-> g, displayName |-> n, email |-> e,
    photo |-> IF n = "n2" THEN "img" ELSE None] :
     g \in GoogleIds, n \in Names \ {""}, e \in RawEmails \cup {None}}
  \cup {[id |-> g, displayName |-> "", email |-> "a@x", photo |-> None] :
          g \in GoogleIds}

IdleCb == [pc |-> "idle", profile |-> NoProfile, user |-> NoDoc, fresh |-> FALSE,
           wrote |-> "none", err |-> NoErr, out |-> NoResp, redirectUri |-> None,
           token |-> NoToken, loaded |-> NoDoc]

\* the identity payload sent to the mobile app
UserData(user) == user

\* the redirect target built from MOBILE_APP_SCHEME when the session holds none
DefaultRedirectUri == "exp://auth"

\* the route handler of GET /auth/google/callback, run with req.user = user.
\* session is the mobileRedirectUri of req.session, "undefined" when the
\* request has no session object
CallbackHandler(user, session, clock) ==
  IF user.id = None
    THEN Redirect("/auth/error", "authentication_failed", NoToken, NoDoc)
  ELSE LET token == generateToken(user, clock)
       IN  IF session = "undefined"
             THEN Redirect("/auth/error", "token_generation_failed", NoToken, NoDoc)
           ELSE Redirect(IF session # None THEN session ELSE DefaultRedirectUri,
                         None, token, UserData(user))

\* the token the route handler signs from req.user, before it reads the
\* session; none when the verify callback passed an error or no user
MintedToken(err, user, clock) ==
  IF err.name # None \/ user.id = None THEN NoToken ELSE generateToken(user, clock)

\* passport.authenticate('google', {failureRedirect, session: false}) followed
\* by the route handler: done(err) goes to next(err) and the error handler,
\* done(null, user) to the route handler
AfterVerify(err, user, env, clock) ==
  IF err.name # None THEN errorHandler(err, env)
  ELSE CallbackHandler(user,
                       IF SessionMounted("/auth") THEN None ELSE "undefined",
                       clock)

\* update branch: the found document gets the profile's name, image and email
AssignProfile(found, prof) ==
  [found EXCEPT !.name = prof.displayName,
                !.googleImage = prof.photo,
                !.email = IF prof.email # None THEN Lower(prof.email) ELSE found.email]

\* create branch: no email ends the callback, else User.create(...)
CreateFromProfile(store, n, prof) ==
  IF prof.email = None
    THEN StoreResult(PlainError("No email provided by Google"), store, NoDoc)
    ELSE CreateUser(store, n, prof.id, prof.email, prof.displayName, prof.photo)

\* the provider redirects back with a grant that passport exchanges for a profile
CbStart(p, profile) ==
  /\ cb[p].pc = "idle"
  /\ cb' = [cb EXCEPT ![p] = [IdleCb EXCEPT !.pc = "findOne", !.profile = profile,
                                !.fresh = \A id \in DOMAIN users :
                                             users[id].googleId # profile.id]]
  /\ UNCHANGED <<users, nextId, now, resp, nodeEnv, tkUser, tkTok, tkOut, sessions, boot, own, mob>>

\* the grant is refused or invalid: passport fails and redirects to failureRedirect
CbDenied(p) ==
  /\ cb[p].pc = "idle"
  /\ cb' = [cb EXCEPT ![p] = [IdleCb EXCEPT !.pc = "done",
                                !.out = Redirect("/auth/error", None, NoToken, NoDoc)]]
  /\ UNCHANGED <<users, nextId, now, resp, nodeEnv, tkUser, tkTok, tkOut, sessions, boot, own, mob>>

\* User.findOne({googleId: profile.id}) resolves; a found document gets the
\* profile's name, image and email assigned
CbFindOne(p) ==
  /\ cb[p].pc = "findOne"
  /\ LET prof == cb[p].profile
         found == FindOneByGoogleId(users, prof.id)
     IN  IF found.id # None
           THEN cb' = [cb EXCEPT ![p].pc = "save", ![p].loaded = found,
                                 ![p].user = AssignProfile(found, prof)]
           ELSE cb' = [cb EXCEPT ![p].pc = "create"]
  /\ UNCHANGED <<users, nextId, now, resp, nodeEnv, tkUser, tkTok, tkOut, sessions, boot, own, mob>>

\* update branch: user.save() resolves or rejects, then done(...)
CbSave(p) ==
  /\ cb[p].pc = "save"
  /\ LET r == SaveUser(users, cb[p].loaded, cb[p].user)
     IN  /\ users' = r.store
         /\ cb' = [cb EXCEPT ![p].pc = "done",
                     ![p].err = r.err,
                     ![p].user = r.doc,
                     ![p].wrote = IF r.err.name = None THEN "update" ELSE "none",
                     ![p].token = MintedToken(r.err, r.doc, now),
                     ![p].loaded = NoDoc,
                     ![p].out = AfterVerify(r.err, r.doc, nodeEnv, now)]
  /\ UNCHANGED <<nextId, now, resp, nodeEnv, tkUser, tkTok, tkOut, sessions, boot, own, mob>>

\* create branch: the callback ends for want of an email, or User.create(...)
\* resolves or rejects, then done(...)
CbCreate(p) ==
  /\ cb[p].pc = "create"
  /\ nextId < MaxUsers
  /\ LET prof == cb[p].profile
         r == CreateFromProfile(users, nextId, prof)
     IN  /\ users' = r.store
         /\ nextId' = IF r.err.name = None THEN nextId + 1 ELSE nextId
         /\ cb' = [cb EXCEPT ![p].pc = "done",
                     ![p].err = r.err,
                     ![p].user = r.doc,
                     ![p].wrote = IF r.err.name = None THEN "create" ELSE "none",
                     ![p].token = MintedToken(r.err, r.doc, now),
                     ![p].out = AfterVerify(r.err, r.doc, nodeEnv, now)]
  /\ UNCHANGED <<now, resp, nodeEnv, tkUser, tkTok, tkOut, sessions, boot, own, mob>>

\* the request is over; the next callback may arrive
CbFinish(p) ==
  /\ cb[p].pc = "done"
  /\ cb' = [cb EXCEPT ![p] = IdleCb]
  /\ UNCHANGED <<users, nextId, now, resp, nodeEnv, tkUser, tkTok, tkOut, sessions, boot, own, mob>>

InitOAuth ==
  /\ users = <<>>
  /\ nextId = 0
  /\ now = 0
  /\ cb = [p \in Procs |-> IdleCb]
  /\ resp = NoExchange
  /\ nodeEnv \in {"production", "development"}
  /\ tkUser = NoDoc
  /\ tkTok = [origin |-> "absent", hdr |-> NoHeader]
  /\ tkOut = NoOut
  /\ sessions = [a \in Procs |-> NoSession]
  /\ boot = NoBoot
  /\ mob = NoMobile
  /\ own = NoOwn

NextOAuth ==
  \/ \E p \in Procs, profile \in Profiles : CbStart(p, profile)
  \/ \E p \in Procs : CbDenied(p)
  \/ \E p \in Procs : CbFindOne(p)
  \/ \E p \in Procs : CbSave(p)
  \/ \E p \in Procs : CbCreate(p)
  \/ \E p \in Procs : CbFinish(p)

SpecOAuth == InitOAuth /\ [][NextOAuth]_vars

----------------------------------------------------------------------------
(* The API routers: routes/users.js, routes/upload.js, with the middleware
   of middleware/validation.js, middleware/security.js and
   services/uploadService.js *)

\* a request body: absent keys are "none"
\* an uploaded file
Files == {NoFile,
          [mime |-> "image/png", big |-> FALSE],
          [mime |-> "image/png", big |-> TRUE],
          [mime |-> "audio/mpeg", big |-> FALSE]}

UserRoutesById ==
  {"GET /api/users/:id", "PUT /api/users/:id", "DELETE /api/users/:id",
   "GET /api/users/:id/stats", "PATCH /api/users/:id/preferences",
   "PATCH /api/users/:id/profile-image"}
UserRoutesMe ==
  {"GET /api/users/me", "PUT /api/users/me", "GET /api/users/me/stats",
   "PATCH /api/users/me/preferences", "PATCH /api/users/me/profile-image"}
UploadRoutesById ==
  {"POST /api/upload/profile/:userId", "POST /api/upload/persona/:personaId",
   "POST /api/upload/audio/:userId"}
UploadRoutes == UploadRoutesById \cup {"DELETE /api/upload/file"}
\* routes/auth.js: the routes behind passport.authenticate('jwt')
AuthRoutes == {"POST /auth/verify", "POST /auth/logout"}

\* the schema a route validates its body against, "none" when it has none
SchemaOf(ep) ==
  IF ep \in {"PUT /api/users/:id", "PUT /api/users/me"} THEN "updateUser"
  ELSE IF ep = "POST /api/users" THEN "createUser"
  ELSE IF ep \in {"PATCH /api/users/:id/preferences", "PATCH /api/users/me/preferences"}
    THEN "preferences"
  ELSE IF ep \in {"PATCH /api/users/:id/profile-image", "PATCH /api/users/me/profile-image"}
    THEN "profileImage"
  ELSE None

\* the middleware of each route, in the order the router declares it
Pipeline(ep) ==
  IF ep \in UserRoutesById
    THEN IF SchemaOf(ep) # None
           THEN <<"rateLimit", "validateObjectId", "requireAuth", "validate", "handler">>
           ELSE <<"rateLimit", "validateObjectId", "requireAuth", "handler">>
  ELSE IF ep \in UserRoutesMe
    THEN IF SchemaOf(ep) # None
           THEN <<"rateLimit", "requireAuth", "validate", "handler">>
           ELSE <<"rateLimit", "requireAuth", "handler">>
  ELSE IF ep = "POST /api/upload/audio/:userId"
    THEN <<"requireAuth", "multer", "handler">>
  ELSE IF ep \in AuthRoutes THEN <<"passportJwt", "handler">>
  ELSE <<"requireAuth", "handler">>

\* Joi: schema.validate(req.body, {abortEarly: false, stripUnknown: true}).error;
\* a key the schema does not know is stripped from the validated copy and is
\* no error, and req.body itself stays as it was sent
JoiError(schema, body) ==
  IF schema = "updateUser"
    THEN \/ body.name = "" \/ body.profileImage = "not-a-uri" \/ body.prefs = "bad"
         \/ body.onbStep \notin Steps \cup {None}
  ELSE IF schema = "createUser"
    THEN body.email \in {None, "not-an-email"} \/ body.name \in {None, ""}
  ELSE IF schema = "preferences" THEN body.prefs = "bad"
  ELSE body.profileImage \in {None, "not-a-uri"}

\* mongoose.Types.ObjectId.isValid
IsValidObjectId(id) == \E i \in 1..Len(IdSeq) : IdSeq[i] = id

\* multer: upload.single(field) with the 5MB limit and the image fileFilter
MulterError(file) ==
  IF file.mime = None THEN NoErr
  ELSE IF file.mime \notin {"image/jpeg", "image/png", "image/webp"}
    THEN PlainError("Invalid file type. Only JPEG, PNG, and WebP are allowed.")
  ELSE IF file.big
    THEN [NoErr EXCEPT !.name = "MulterError", !.code = "LIMIT_FILE_SIZE",
                       !.message = "File too large"]
  ELSE NoErr

MwPass == MwNext(NoDoc)

\* req.user when a router is entered: the identity passport.session() would
\* deserialise from the session the cookie names, were the session middleware
\* mounted before the router
SessionUser(req, store, router) ==
  IF SessionMounted(router) /\ req.cookie \in DOMAIN store THEN store[req.cookie] ELSE NoDoc

AuthStepSessionFallback(req, store, clock) ==
  IF req.cookie \in DOMAIN store THEN MwNext(store[req.cookie])
  ELSE requireAuth(req.hdr, store, clock)

\* requireAuth as a route middleware: it reads the Authorization header of
\* the request and nothing else
AuthStep(req, store, clock) == requireAuth(req.hdr, store, clock)
MwFromResponse(r) == MwReply(r.status, r.code, r.error)

\* one middleware of a route, other than its handler
Middleware(name, req, store, clock, env) ==
  IF name = "rateLimit"
    THEN IF req.limited
           THEN MwReply(429, "RATE_LIMIT_EXCEEDED",
                        "Too many requests from this IP, please try again later")
           ELSE MwPass
  ELSE IF name = "validateObjectId"
    THEN IF IsValidObjectId(req.id) THEN MwPass
         ELSE MwReply(400, "INVALID_OBJECT_ID", "Invalid id format")
  ELSE IF name = "requireAuth" THEN AuthStep(req, store, clock)
  ELSE IF name = "passportJwt" THEN PassportAuthenticate(req.hdr, store, clock)
  ELSE IF name = "validate"
    THEN IF JoiError(SchemaOf(req.ep), req.body)
           THEN MwReply(400, "VALIDATION_ERROR", "Validation failed")
           ELSE MwPass
  ELSE \* "multer" as a route middleware: an error goes to next(err)
       IF MulterError(req.file).name # None
         THEN MwFromResponse(errorHandler(MulterError(req.file), env))
         ELSE MwPass

HandlerResult(res, store) == [res |-> res, store |-> store]
AccessDenied(message) == Json(403, "ACCESS_DENIED", message)
UserNotFound == Json(404, "USER_NOT_FOUND", "User not found")

\* the update a PUT / PATCH handler passes to findByIdAndUpdate
ApplyUpdate(ep, doc, body) ==
  IF SchemaOf(ep) = "updateUser"
    THEN \* {...req.body, updatedAt}: every key of the body that is a path of
         \* the schema, the ones Joi would have stripped included; an
         \* onboarding object replaces the stored one
         [doc EXCEPT !.name = IF body.name # None THEN body.name ELSE @,
                     !.profileImage = IF body.profileImage # None
                                        THEN body.profileImage ELSE @,
                     !.prefs = IF body.prefs # None THEN body.prefs ELSE @,
                     !.email = IF body.email # None THEN Lower(body.email) ELSE @,
                     !.googleId = IF body.googleId # None THEN body.googleId ELSE @,
                     !.onbStep = IF body.onbStep # None THEN body.onbStep ELSE @,
                     !.onbCompleted = IF body.onbStep # None THEN FALSE ELSE @]
  ELSE IF SchemaOf(ep) = "preferences"
    THEN [doc EXCEPT !.prefs = IF body.prefs # None THEN body.prefs ELSE "empty"]
  ELSE [doc EXCEPT !.profileImage = body.profileImage]

\* the handlers of routes/users.js; target is the id the handler works on
UserHandlerNoOwnerCheck(req, user, store, env) ==
  LET target == IF req.ep \in UserRoutesMe THEN user.id ELSE req.id
  IN  IF target \notin DOMAIN store
        THEN HandlerResult(
               IF req.ep \in UserRoutesById THEN UserNotFound
               ELSE IF req.ep \in {"GET /api/users/me/stats",
                                   "PATCH /api/users/me/preferences"}
                 THEN errorHandler(TypeError("Cannot read properties of null"), env)
               ELSE JsonOk(200, NoDoc),
               store)
      ELSE IF req.ep = "DELETE /api/users/:id"
        THEN HandlerResult(JsonOk(200, store[target]),
                           [id \in DOMAIN store \ {target} |-> store[id]])
      ELSE IF SchemaOf(req.ep) # None
        THEN LET d == ApplyUpdate(req.ep, store[target], req.body)
             IN  IF UniqueViolation(store, d) # None
                   THEN HandlerResult(
                          errorHandler(DuplicateKeyError(UniqueViolation(store, d)), env),
                          store)
                   ELSE HandlerResult(JsonOk(200, d), [store EXCEPT ![target] = d])
      ELSE HandlerResult(JsonOk(200, store[target]), store)

UserHandlerAnyCaller(req, user, store, env) ==
  UserHandlerNoOwnerCheck(req, user, store, env)

UserHandler(req, user, store, env) ==
  IF req.ep \in UserRoutesById /\ user.id # req.id
    THEN HandlerResult(AccessDenied("Access denied."), store)
    ELSE UserHandlerNoOwnerCheck(req, user, store, env)

\* the upload after the file checks of the upload handlers
UploadOrNoFile(req, store) ==
  IF req.file.mime = None
    THEN HandlerResult(Json(400, "NO_FILE_PROVIDED", "No file provided"), store)
    ELSE HandlerResult(JsonOk(200, NoDoc), store)

\* multer called inside the handler, with the handler's own error mapping
UploadInHandler(req, store) ==
  LET err == MulterError(req.file)
  IN  IF err.name = None THEN UploadOrNoFile(req, store)
      ELSE IF err.code = "LIMIT_FILE_SIZE"
        THEN HandlerResult(Json(413, "FILE_TOO_LARGE",
                                "File too large. Maximum size is 5MB."), store)
      ELSE HandlerResult(Json(400, "INVALID_FILE_TYPE", err.message), store)

\* the handlers of routes/upload.js
UploadHandler(req, user, store) ==
  IF req.ep = "POST /api/upload/profile/:userId"
    THEN IF user.id # req.id
           THEN HandlerResult(AccessDenied("Access denied."), store)
           ELSE UploadInHandler(req, store)
  ELSE IF req.ep = "POST /api/upload/persona/:personaId"
    THEN UploadInHandler(req, store)
  ELSE IF req.ep = "POST /api/upload/audio/:userId"
    THEN IF user.id # req.id
           THEN HandlerResult(AccessDenied("Access denied."), store)
           ELSE UploadOrNoFile(req, store)
  ELSE \* DELETE /api/upload/file
       IF req.body.fileUrl = None
         THEN HandlerResult(Json(400, "NO_FILE_URL", "File URL is required"), store)
         ELSE HandlerResult(JsonOk(200, NoDoc), store)

\* handlers of /auth/verify and /auth/logout that write to the identity
AuthHandlerWriting(req, user, store) ==
  HandlerResult(JsonOk(200, UserData(user)),
                [store EXCEPT ![user.id].totalEntries = 1])

\* a logout that makes the token unusable by removing its subject
AuthHandlerRevoking(req, user, store) ==
  IF req.ep = "POST /auth/verify"
    THEN HandlerResult(JsonOk(200, UserData(user)), store)
    ELSE HandlerResult([JsonOk(200, NoDoc) EXCEPT !.message = "Logged out successfully"],
                       [id \in DOMAIN store \ {user.id} |-> store[id]])

\* the handlers of POST /auth/verify and POST /auth/logout
AuthHandler(req, user, store) ==
  IF req.ep = "POST /auth/verify"
    THEN HandlerResult(JsonOk(200, UserData(user)), store)
    ELSE HandlerResult([JsonOk(200, NoDoc) EXCEPT !.message = "Logged out successfully"],
                       store)

Handler(req, user, store, env) ==
  IF req.ep \in UploadRoutes THEN UploadHandler(req, user, store)
  ELSE IF req.ep \in AuthRoutes THEN AuthHandler(req, user, store)
  ELSE UserHandler(req, user, store, env)

\* run the route's middleware from position i on; ran tells whether the
\* handler was entered, user is req.user
RECURSIVE RunPipeline(_, _, _, _, _, _)
RunPipeline(i, req, user, store, clock, env) ==
  LET name == Pipeline(req.ep)[i]
  IN  IF name = "handler"
        THEN LET h == Handler(req, user, store, env)
             IN  [res |-> h.res, store |-> h.store, ran |-> TRUE, user |-> user.id]
      ELSE LET m == Middleware(name, req, store, clock, env)
           IN  IF m.next
                 THEN RunPipeline(i + 1, req,
                                  IF name \in {"requireAuth", "passportJwt"}
                                    THEN m.user ELSE user,
                                  store, clock, env)
                 ELSE [res |-> IF name = "passportJwt" THEN Text(m.status, m.error)
                               ELSE Json(m.status, m.code, m.error),
                       store |-> store, ran |-> FALSE, user |-> user.id]

----------------------------------------------------------------------------
(* SpecApi: sign-ins followed by API requests, each request run as a whole *)

\* the accounts that sign in
ApiProfiles ==
  {[id |-> "g1", displayName |-> "n1", email |-> "a@x", photo |-> None],
   [id |-> "g2", displayName |-> "n1", email |-> "b@x", photo |-> None]}

\* the whole GoogleStrategy verify callback, run without interleaving
GoogleVerify(store, n, prof) ==
  LET found == FindOneByGoogleId(store, prof.id)
  IN  IF found.id # None THEN SaveUser(store, found, AssignProfile(found, prof))
      ELSE CreateFromProfile(store, n, prof)

\* the ids requests name: the ids an identity can have, and a malformed one
ApiIds == {IdSeq[i] : i \in 1..Cardinality(ApiProfiles)} \cup {"not-an-id"}

\* the Authorization headers requests carry: none, a token generateToken
\* made for a stored identity (just now, or 30 days ago), a badly signed one
ApiHeaders(store, clock) ==
  {NoHeader}
  \cup {Bearer(generateToken(store[id], clock)) : id \in DOMAIN store}
  \cup {Bearer(generateToken(store[id], clock - TOKEN_TTL_DAYS)) : id \in DOMAIN store}
  \cup {Bearer([generateToken(store[id], clock) EXCEPT !.sig = "wrong-secret"]) :
          id \in DOMAIN store}
  \cup {Bearer(Malformed)}

\* the ids of the identities that were created and are no longer stored
DeletedIds(store, n) == {IdSeq[i] : i \in 1..n} \ DOMAIN store

\* the unexpired token of an identity that has since been deleted (its
\* subject is all that verification reads)
OrphanHeaders(store, n, clock) ==
  {Bearer(generateToken([NoDoc EXCEPT !.id = id], clock)) : id \in DeletedIds(store, n)}

\* the session cookie of a request: none, or one that stands for the first
\* stored identity
ApiCookies(store) == {None} \cup {id \in DOMAIN store : id = IdSeq[1]}

BodiesOf(ep) ==
  IF SchemaOf(ep) = "updateUser"
    THEN {[EmptyBody EXCEPT !.name = "n2"], [EmptyBody EXCEPT !.name = ""]}
  ELSE IF SchemaOf(ep) = "preferences"
    THEN {[EmptyBody EXCEPT !.prefs = "custom"], [EmptyBody EXCEPT !.prefs = "bad"]}
  ELSE IF SchemaOf(ep) = "profileImage"
    THEN {[EmptyBody EXCEPT !.profileImage = "img"], EmptyBody}
  ELSE IF ep = "DELETE /api/upload/file"
    THEN {[EmptyBody EXCEPT !.fileUrl = "url"], EmptyBody}
  ELSE {EmptyBody}

Endpoints == UserRoutesById \cup UserRoutesMe \cup UploadRoutes \cup AuthRoutes

ApiLogin(prof) ==
  /\ resp = NoExchange
  /\ nextId < MaxUsers \/ FindOneByGoogleId(users, prof.id).id # None
  /\ LET r == GoogleVerify(users, nextId, prof)
     IN  /\ users' = r.store
         /\ nextId' = IF Cardinality(DOMAIN r.store) > Cardinality(DOMAIN users)
                        THEN nextId + 1 ELSE nextId
  /\ UNCHANGED <<now, cb, resp, nodeEnv, tkUser, tkTok, tkOut, sessions, boot, own, mob>>

\* one request through its router: the middleware chain and the handler; the
\* response is then in flight to the client
ApiRequest(req) ==
  /\ LET r == RunPipeline(1, req, SessionUser(req, users, "/api/users"), users, now, nodeEnv)
     IN  /\ users' = r.store
         /\ resp' = [req |-> req, res |-> r.res, ran |-> r.ran, user |-> r.user]
  /\ UNCHANGED <<nextId, now, cb, nodeEnv, tkUser, tkTok, tkOut, sessions, boot, own, mob>>

\* the client sends one request at a time: any request of the bounded domains
ApiCall ==
  /\ resp = NoExchange
  /\ \E ep \in Endpoints :
       \E h \in ApiHeaders(users, now) \cup OrphanHeaders(users, nextId, now),
          id \in (IF ep \in UserRoutesById \cup UploadRoutesById THEN ApiIds ELSE {None}),
          b \in BodiesOf(ep),
          f \in (IF ep \in UploadRoutesById THEN Files ELSE {NoFile}),
          l \in (IF ep \in UploadRoutes \cup AuthRoutes THEN {FALSE} ELSE BOOLEAN),
          c \in ApiCookies(users) :
         ApiRequest([ep |-> ep, hdr |-> h, id |-> id, body |-> b, file |-> f,
                     limited |-> l, cookie |-> c])

\* the client receives the response
ApiDeliver ==
  /\ resp # NoExchange
  /\ resp' = NoExchange
  /\ UNCHANGED <<users, nextId, now, cb, nodeEnv, tkUser, tkTok, tkOut, sessions, boot, own, mob>>

InitApi ==
  /\ users = <<>>
  /\ nextId = 0
  /\ now = 0
  /\ cb = [p \in Procs |-> IdleCb]
  /\ resp = NoExchange
  /\ nodeEnv \in {"production", "development"}
  /\ tkUser = NoDoc
  /\ tkTok = [origin |-> "absent", hdr |-> NoHeader]
  /\ tkOut = NoOut
  /\ sessions = [a \in Procs |-> NoSession]
  /\ boot = NoBoot
  /\ mob = NoMobile
  /\ own = NoOwn

NextApi ==
  \/ \E prof \in ApiProfiles : ApiLogin(prof)
  \/ ApiCall
  \/ ApiDeliver

SpecApi == InitApi /\ [][NextApi]_vars

----------------------------------------------------------------------------
(* SpecStore: the operations that write the identity store, interleaved:
   OAuth callbacks step by step, POST /api/users, PUT /api/users/me and
   DELETE /api/users/:id; and GET /api/users, which reads all of it *)

\* POST /api/users: rate limit, validate(schemas.createUser), then the
\* handler: findOne({$or: [{email}, {googleId}]}) (a googleId that was not
\* sent is compared as null and matches an identity without one), then
\* new User({...}).save()
CreateUserRoute(req, store, n, env) ==
  LET body == req.body
      existing == \E id \in DOMAIN store :
                    \/ store[id].email = Lower(body.email)
                    \/ store[id].googleId = body.googleId
      r == CreateUser(store, n, body.googleId, body.email, body.name, None)
  IN  IF ~Middleware("rateLimit", req, store, 0, env).next
        THEN HandlerResult(Json(429, "RATE_LIMIT_EXCEEDED",
                                "Too many requests from this IP, please try again later"),
                           store)
      ELSE IF ~Middleware("validate", req, store, 0, env).next
        THEN HandlerResult(Json(400, "VALIDATION_ERROR", "Validation failed"), store)
      ELSE IF existing
        THEN HandlerResult(errorHandler(APIError("User already exists", 409, "USER_EXISTS"),
                                        env),
                           store)
      ELSE IF r.err.name # None THEN HandlerResult(errorHandler(r.err, env), store)
      ELSE HandlerResult(JsonOk(201, r.doc), r.store)

\* User.find().limit(20).skip(0).sort({createdAt: -1}): the stored documents,
\* the newest first
FindAll(store) ==
  LET idx(id) == CHOOSE i \in 1..Len(IdSeq) : IdSeq[i] = id
      newer(id) == {j \in DOMAIN store : idx(j) > idx(id)}
  IN  [k \in 1..Cardinality(DOMAIN store) |->
         store[CHOOSE id \in DOMAIN store : Cardinality(newer(id)) = k - 1]]

\* GET /api/users: rate limit, then the handler: every stored document
ListUsersRoute(req, store, env) ==
  IF ~Middleware("rateLimit", req, store, 0, env).next
    THEN HandlerResult(Json(429, "RATE_LIMIT_EXCEEDED",
                            "Too many requests from this IP, please try again later"),
                       store)
  ELSE HandlerResult([JsonOk(200, NoDoc) EXCEPT !.list = FindAll(store)], store)

\* the profiles of the callbacks: one account, before and after its email
\* changed at the provider
StoreProfiles ==
  {[id |-> "g1", displayName |-> "n1", email |-> e, photo |-> None] : e \in {"a@x", "b@x"}}

\* the bodies of POST /api/users
CreateBodies ==
  {[EmptyBody EXCEPT !.email = e, !.name = "n1", !.googleId = g] :
     e \in {"b@x"}, g \in {None, "g1"}}
  \cup {[EmptyBody EXCEPT !.email = "not-an-email", !.name = "n1"]}

\* the bodies of PUT /api/users/me
UpdateBodies ==
  {[EmptyBody EXCEPT !.email = "A@x"],
   [EmptyBody EXCEPT !.googleId = "g1"],
   [EmptyBody EXCEPT !.onbStep = "completed"],
   [EmptyBody EXCEPT !.onbStep = "welcome"],
   [EmptyBody EXCEPT !.onbStep = "finished"]}

StoreRoutes == {"PUT /api/users/me", "DELETE /api/users/:id"}

StoreBodiesOf(ep) ==
  IF SchemaOf(ep) = "updateUser" THEN UpdateBodies ELSE {EmptyBody}

\* POST /api/users, run as a whole; the response is then in flight
StorePost(body, limited) ==
  /\ resp = NoExchange
  /\ nextId < MaxUsers
  /\ LET req == [NoRequest EXCEPT !.ep = "POST /api/users", !.body = body,
                                  !.limited = limited]
         r == CreateUserRoute(req, users, nextId, nodeEnv)
     IN  /\ users' = r.store
         /\ nextId' = IF r.res.status = 201 THEN nextId + 1 ELSE nextId
         /\ resp' = [req |-> req, res |-> r.res, ran |-> TRUE, user |-> None]
  /\ UNCHANGED <<now, cb, nodeEnv, tkUser, tkTok, tkOut, sessions, boot, own, mob>>

\* GET /api/users, run as a whole; the response is then in flight
StoreList ==
  /\ resp = NoExchange
  /\ LET req == [NoRequest EXCEPT !.ep = "GET /api/users"]
         r == ListUsersRoute(req, users, nodeEnv)
     IN  resp' = [req |-> req, res |-> r.res, ran |-> TRUE, user |-> None]
  /\ UNCHANGED <<users, nextId, now, cb, nodeEnv, tkUser, tkTok, tkOut, sessions, boot, own, mob>>

\* a stored identity, with its own unexpired token, sends an update or a
\* delete that names itself or another stored identity
StoreCall ==
  /\ resp = NoExchange
  /\ \E ep \in StoreRoutes :
       \E caller \in DOMAIN users,
          id \in (IF ep \in UserRoutesById THEN DOMAIN users ELSE {None}),
          b \in StoreBodiesOf(ep) :
         ApiRequest([ep |-> ep, hdr |-> Bearer(generateToken(users[caller], now)),
                     id |-> id, body |-> b, file |-> NoFile, limited |-> FALSE,
                     cookie |-> None])

InitStore ==
  /\ users = <<>>
  /\ nextId = 0
  /\ now = 0
  /\ cb = [p \in Procs |-> IdleCb]
  /\ resp = NoExchange
  /\ nodeEnv = "production"
  /\ tkUser = NoDoc
  /\ tkTok = [origin |-> "absent", hdr |-> NoHeader]
  /\ tkOut = NoOut
  /\ sessions = [a \in Procs |-> NoSession]
  /\ boot = NoBoot
  /\ mob = NoMobile
  /\ own = NoOwn

NextStore ==
  \/ \E p \in Procs, profile \in StoreProfiles : CbStart(p, profile)
  \/ \E p \in Procs : CbFindOne(p)
  \/ \E p \in Procs : CbSave(p)
  \/ \E p \in Procs : CbCreate(p)
  \/ \E p \in Procs : CbFinish(p)
  \/ \E body \in CreateBodies, limited \in BOOLEAN : StorePost(body, limited)
  \/ StoreList
  \/ StoreCall
  \/ ApiDeliver

SpecStore == InitStore /\ [][NextStore]_vars

----------------------------------------------------------------------------
(* SpecSession: GET /auth/google and GET /auth/google/callback of one user
   agent after the other, with the session the application gives them *)

\* the redirect_uri query parameters of GET /auth/google: none, the mobile
\* client's own URI, a foreign URI
RedirectUris == {None, "exp://app/auth", "https://evil.example/collect"}
ProviderUrl == "https://accounts.google.com/o/oauth2/v2/auth"

\* the profiles the provider answers with
SessionProfiles ==
  ApiProfiles \cup {[id |-> "g1", displayName |-> "n2", email |-> None, photo |-> "img"]}

\* req.session.mobileRedirectUri as the handlers of the /auth router read it
SessionValue(a, store) ==
  IF SessionMounted("/auth") THEN store[a].mobileRedirectUri ELSE "undefined"

\* GET /auth/google?redirect_uri=R: the handler stores a given R in
\* req.session, then passport redirects to the provider; without a session
\* object the assignment throws and the error handler answers
AuthGoogle(a, R) ==
  /\ cb[a].pc = "idle"
  /\ IF R # None /\ ~SessionMounted("/auth")
       THEN /\ cb' = [cb EXCEPT ![a] = [IdleCb EXCEPT
                        !.pc = "done", !.redirectUri = R,
                        !.err = TypeError("Cannot set properties of undefined"),
                        !.out = errorHandler(TypeError("Cannot set properties of undefined"),
                                             nodeEnv)]]
            /\ sessions' = sessions
       ELSE /\ cb' = [cb EXCEPT ![a] = [IdleCb EXCEPT
                        !.pc = "provider", !.redirectUri = R,
                        !.out = Redirect(ProviderUrl, None, NoToken, NoDoc)]]
            /\ sessions' = IF R # None
                             THEN [sessions EXCEPT ![a] = [exists |-> TRUE,
                                                          mobileRedirectUri |-> R]]
                             ELSE sessions
  /\ UNCHANGED <<users, nextId, now, resp, nodeEnv, tkUser, tkTok, tkOut, boot, own, mob>>

\* GET /auth/google/callback of the user agent the provider sends back: the
\* verify callback, then the route handler, which reads and deletes
\* req.session.mobileRedirectUri
GoogleCallback(a, profile) ==
  /\ cb[a].pc = "provider"
  /\ nextId < MaxUsers \/ FindOneByGoogleId(users, profile.id).id # None
  /\ LET r == GoogleVerify(users, nextId, profile)
         out == IF r.err.name # None THEN errorHandler(r.err, nodeEnv)
                ELSE CallbackHandler(r.doc, SessionValue(a, sessions), now)
     IN  /\ users' = r.store
         /\ nextId' = IF Cardinality(DOMAIN r.store) > Cardinality(DOMAIN users)
                        THEN nextId + 1 ELSE nextId
         /\ cb' = [cb EXCEPT ![a].pc = "done", ![a].profile = profile,
                             ![a].err = r.err, ![a].user = r.doc, ![a].out = out,
                             ![a].token = MintedToken(r.err, r.doc, now)]
         /\ sessions' = IF r.err.name = None /\ SessionMounted("/auth")
                          THEN [sessions EXCEPT ![a].mobileRedirectUri = None]
                          ELSE sessions
  /\ UNCHANGED <<now, resp, nodeEnv, tkUser, tkTok, tkOut, boot, own, mob>>

\* the user agent has its answer; it may start over
SessionFinish(a) ==
  /\ cb[a].pc = "done"
  /\ cb' = [cb EXCEPT ![a] = IdleCb]
  /\ UNCHANGED <<users, nextId, now, resp, nodeEnv, tkUser, tkTok, tkOut, sessions, boot, own, mob>>

InitSession ==
  /\ users = <<>>
  /\ nextId = 0
  /\ now = 0
  /\ cb = [p \in Procs |-> IdleCb]
  /\ resp = NoExchange
  /\ nodeEnv \in {"production", "development"}
  /\ tkUser = NoDoc
  /\ tkTok = [origin |-> "absent", hdr |-> NoHeader]
  /\ tkOut = NoOut
  /\ sessions = [a \in Procs |-> NoSession]
  /\ boot = NoBoot
  /\ mob = NoMobile
  /\ own = NoOwn

NextSession ==
  \/ \E a \in Procs, R \in RedirectUris : AuthGoogle(a, R)
  \/ \E a \in Procs, profile \in SessionProfiles : GoogleCallback(a, profile)
  \/ \E a \in Procs : SessionFinish(a)

SpecSession == InitSession /\ [][NextSession]_vars

----------------------------------------------------------------------------
(* SpecBoot: the server process from node server.js to app.listen, and the
   validation script, on one environment *)

\* node server.js: the requires at the top of the file
BootLoad ==
  /\ boot.pc = "start"
  /\ boot' = IF LoadError(boot.env).name # None
               THEN [boot EXCEPT !.pc = "exited", !.uncaught = LoadError(boot.env),
                                 !.exitCode = 1]
               ELSE [boot EXCEPT !.pc = "loaded"]
  /\ UNCHANGED <<users, nextId, now, cb, resp, nodeEnv, tkUser, tkTok, tkOut, sessions, own, mob>>

\* the try / catch around validateEnvironment(): process.exit(1) on a throw
BootValidate ==
  /\ boot.pc = "loaded"
  /\ LET r == validateEnvironment(boot.env)
     IN  boot' = IF r.threw
                   THEN [boot EXCEPT !.pc = "exited", !.stderr = r, !.exitCode = 1]
                   ELSE [boot EXCEPT !.pc = "validated"]
  /\ UNCHANGED <<users, nextId, now, cb, resp, nodeEnv, tkUser, tkTok, tkOut, sessions, own, mob>>

\* start(): await connectDB() resolves, or rejects and the process exits
BootConnect(ok) ==
  /\ boot.pc = "validated"
  /\ boot' = IF ok THEN [boot EXCEPT !.pc = "connected", !.db = TRUE]
             ELSE [boot EXCEPT !.pc = "exited", !.exitCode = 1]
  /\ UNCHANGED <<users, nextId, now, cb, resp, nodeEnv, tkUser, tkTok, tkOut, sessions, own, mob>>

\* start(): the session and passport middleware are mounted, then app.listen
BootListen ==
  /\ boot.pc = "connected"
  /\ boot' = [boot EXCEPT !.pc = "listening", !.listening = TRUE]
  /\ UNCHANGED <<users, nextId, now, cb, resp, nodeEnv, tkUser, tkTok, tkOut, sessions, own, mob>>

\* node scripts/validate-environment.js on the same environment
RunValidateScript ==
  /\ ~boot.scriptRan
  /\ boot.pc # "none"
  /\ boot' = [boot EXCEPT !.scriptRan = TRUE, !.script = validateEnvironment(boot.env)]
  /\ UNCHANGED <<users, nextId, now, cb, resp, nodeEnv, tkUser, tkTok, tkOut, sessions, own, mob>>

InitBoot ==
  /\ users = <<>>
  /\ nextId = 0
  /\ now = 0
  /\ cb = [p \in Procs |-> IdleCb]
  /\ resp = NoExchange
  /\ nodeEnv = "production"
  /\ tkUser = NoDoc
  /\ tkTok = [origin |-> "absent", hdr |-> NoHeader]
  /\ tkOut = NoOut
  /\ sessions = [a \in Procs |-> NoSession]
  /\ \E env \in Environments : boot = [NoBoot EXCEPT !.pc = "start", !.env = env]
  /\ own = NoOwn
  /\ mob = NoMobile

NextBoot ==
  \/ BootLoad
  \/ BootValidate
  \/ \E ok \in BOOLEAN : BootConnect(ok)
  \/ BootListen
  \/ RunValidateScript

SpecBoot == InitBoot /\ [][NextBoot]_vars

----------------------------------------------------------------------------
(* SpecOwnership: requireOwnership called with every combination of caller,
   route parameter, body field and previously loaded resource *)

\* the ids a request can carry: those of two identities, and a third value
OwnerIds == {IdSeq[1], IdSeq[2], "other"}

OwnCall(user, param, body, resource) ==
  /\ own' = [called |-> TRUE, user |-> user, param |-> param, body |-> body,
             resource |-> resource,
             out |-> requireOwnership(user, param, body, resource)]
  /\ UNCHANGED <<users, nextId, now, cb, resp, nodeEnv, tkUser, tkTok, tkOut, sessions, boot, mob>>

InitOwnership ==
  /\ users = <<>>
  /\ nextId = 0
  /\ now = 0
  /\ cb = [p \in Procs |-> IdleCb]
  /\ resp = NoExchange
  /\ nodeEnv = "production"
  /\ tkUser = NoDoc
  /\ tkTok = [origin |-> "absent", hdr |-> NoHeader]
  /\ tkOut = NoOut
  /\ sessions = [a \in Procs |-> NoSession]
  /\ boot = NoBoot
  /\ mob = NoMobile
  /\ own = NoOwn

NextOwnership ==
  \E user \in {None, IdSeq[1], IdSeq[2]},
     param, body, resource \in OwnerIds \cup {None} :
    OwnCall(user, param, body, resource)

SpecOwnership == InitOwnership /\ [][NextOwnership]_vars

-----------------------------------------------------------------------------
(* The mobile client: AuthProvider (AuthContext.js) over AuthService.
   Every await of an operation is a step of its own, so the operations
   interleave at their awaits; a storage call takes effect when it resolves,
   and the state setters that follow one await are applied in the same step. *)

\* the token the backend issues and the user objects the client can hold:
\* the backend's view, and a local merge by updateUser
MobileTokens == {"t1"}
BackendUser == "u"

\* { ...user, ...updatedUserData }
MergeUser(user) == IF user = None THEN "patch" ELSE "u+"

\* how an AsyncStorage call ends
StorageOutcomes == {"ok", "throws"}

\* how POST /auth/logout ends for fetch and response.json()
LogoutOutcomes == {"ok", "error", "throws"}

\* signOut resetting the state but keeping the token
SignedOutStateKeepsToken(st) ==
  [st EXCEPT !.user = None, !.isAuthenticated = FALSE]

\* the state setters signOut applies after authService.logout
SignedOutState(st) ==
  [st EXCEPT !.authToken = None, !.user = None, !.isAuthenticated = FALSE]

\* useEffect: checkAuthState runs on mount, over whatever the device stored
InitMobile ==
  /\ users = <<>>
  /\ nextId = 0
  /\ now = 0
  /\ cb = [p \in Procs |-> IdleCb]
  /\ resp = NoExchange
  /\ nodeEnv = "production"
  /\ tkUser = NoDoc
  /\ tkTok = [origin |-> "absent", hdr |-> NoHeader]
  /\ tkOut = NoOut
  /\ sessions = [a \in Procs |-> NoSession]
  /\ boot = NoBoot
  /\ own = NoOwn
  /\ \E st \in {NoStorage, [authToken |-> "t1", user |-> BackendUser]} :
       mob = [NoMobile EXCEPT !.storage = st, !.check.pc = "getStoredAuth"]

MobileUnchanged ==
  UNCHANGED <<users, nextId, now, cb, resp, nodeEnv, tkUser, tkTok, tkOut,
              sessions, boot, own>>

\* checkAuthState is called: setLoading(true), setError(null), getStoredAuth()
CheckStart ==
  /\ mob.check.pc = "idle"
  /\ mob' = [mob EXCEPT !.loading = TRUE, !.error = None,
                        !.check.pc = "getStoredAuth"]
  /\ MobileUnchanged

\* getStoredAuth resolves (with {} when the read failed)
CheckStored(outcome) ==
  /\ mob.check.pc = "getStoredAuth"
  /\ LET st == IF outcome = "ok" THEN mob.storage ELSE NoStorage
     IN  IF st.authToken # None /\ st.user # None
         THEN mob' = [mob EXCEPT !.check = [pc |-> "verifyToken",
                                            token |-> st.authToken, user |-> st.user]]
         ELSE mob' = [mob EXCEPT !.isAuthenticated = FALSE, !.loading = FALSE,
                                 !.check = IdleOp]
  /\ MobileUnchanged

\* verifyToken resolves: the backend accepted the token, or it did not
\* (rejected, unreachable, unreadable answer)
CheckVerified(success) ==
  /\ mob.check.pc = "verifyToken"
  /\ IF success
     THEN mob' = [mob EXCEPT !.authToken = mob.check.token, !.user = BackendUser,
                             !.isAuthenticated = TRUE, !.loading = FALSE,
                             !.check = IdleOp]
     ELSE mob' = [mob EXCEPT !.check.pc = "clearAuth"]
  /\ MobileUnchanged

\* clearAuth resolves or throws into the catch block, which clears again
CheckCleared(outcome) ==
  /\ mob.check.pc = "clearAuth"
  /\ IF outcome = "ok"
     THEN mob' = [mob EXCEPT !.storage = NoStorage, !.isAuthenticated = FALSE,
                             !.loading = FALSE, !.check = IdleOp]
     ELSE mob' = [mob EXCEPT !.error = "Failed to restore authentication",
                             !.isAuthenticated = FALSE,
                             !.check.pc = "clearAuthAgain"]
  /\ MobileUnchanged

\* the catch block's clearAuth ends either way; finally: setLoading(false)
CheckClearedAgain(outcome) ==
  /\ mob.check.pc = "clearAuthAgain"
  /\ mob' = [mob EXCEPT !.storage = IF outcome = "ok" THEN NoStorage ELSE @,
                        !.loading = FALSE, !.check = IdleOp]
  /\ MobileUnchanged

\* signInWithGoogle is called: the browser session opens
SignInStart ==
  /\ mob.signIn.pc = "idle"
  /\ mob' = [mob EXCEPT !.loading = TRUE, !.error = None,
                        !.signIn.pc = "signInWithGoogle"]
  /\ MobileUnchanged

\* authService.signInWithGoogle resolves with a token and user, or a failure
SignInResult(success) ==
  /\ mob.signIn.pc = "signInWithGoogle"
  /\ IF success
     THEN \E t \in MobileTokens :
            mob' = [mob EXCEPT !.signIn = [pc |-> "storeAuth", token |-> t,
                                           user |-> BackendUser]]
     ELSE mob' = [mob EXCEPT !.error = "Authentication failed", !.loading = FALSE,
                             !.signIn = IdleOp]
  /\ MobileUnchanged

\* storeAuth(result.token, result.user) resolves or throws
SignInStored(outcome) ==
  /\ mob.signIn.pc = "storeAuth"
  /\ IF outcome = "ok"
     THEN mob' = [mob EXCEPT !.storage = [authToken |-> mob.signIn.token,
                                          user |-> mob.signIn.user],
                             !.authToken = mob.signIn.token,
                             !.user = mob.signIn.user,
                             !.isAuthenticated = TRUE, !.loading = FALSE,
                             !.signIn = IdleOp]
     ELSE mob' = [mob EXCEPT !.error = "Sign-in failed", !.loading = FALSE,
                             !.signIn = IdleOp]
  /\ MobileUnchanged

\* signOut is called: authService.logout(authToken) sends POST /auth/logout
SignOutStart ==
  /\ mob.out.pc = "idle"
  /\ mob' = [mob EXCEPT !.loading = TRUE, !.error = None,
                        !.out = [NoSignOut EXCEPT !.pc = "logout",
                                                  !.token = mob.authToken]]
  /\ MobileUnchanged

\* authService.logout resolves: whatever the backend call did, multiRemove ran
\* (a second time in the catch block when the first call threw) and logout
\* returned; signOut resets the state
SignOutDone(backend, removal) ==
  /\ mob.out.pc = "logout"
  /\ mob' = [SignedOutState(mob) EXCEPT
               !.storage = IF removal = "ok" THEN NoStorage ELSE @,
               !.loading = FALSE,
               !.out = [pc |-> "idle", token |-> mob.out.token,
                        backend |-> backend, removed |-> (removal = "ok")]]
  /\ MobileUnchanged

\* updateUser(updatedUserData) is called: storeAuth(authToken, newUserData)
UpdateStart ==
  /\ mob.upd.pc = "idle"
  /\ mob' = [mob EXCEPT !.upd = [pc |-> "storeAuth", token |-> mob.authToken,
                                 user |-> MergeUser(mob.user)]]
  /\ MobileUnchanged

\* storeAuth resolves or throws
UpdateStored(outcome) ==
  /\ mob.upd.pc = "storeAuth"
  /\ IF outcome = "ok"
     THEN mob' = [mob EXCEPT !.storage = [authToken |-> mob.upd.token,
                                          user |-> mob.upd.user],
                             !.user = mob.upd.user, !.upd = IdleOp]
     ELSE mob' = [mob EXCEPT !.error = "Failed to update user", !.upd = IdleOp]
  /\ MobileUnchanged

NextMobile ==
  \/ CheckStart
  \/ \E o \in StorageOutcomes : CheckStored(o)
  \/ \E ok \in BOOLEAN : CheckVerified(ok)
  \/ \E o \in StorageOutcomes : CheckCleared(o)
  \/ \E o \in StorageOutcomes : CheckClearedAgain(o)
  \/ SignInStart
  \/ \E ok \in BOOLEAN : SignInResult(ok)
  \/ \E o \in StorageOutcomes : SignInStored(o)
  \/ SignOutStart
  \/ \E b \in LogoutOutcomes, o \in StorageOutcomes : SignOutDone(b, o)
  \/ UpdateStart
  \/ \E o \in StorageOutcomes : UpdateStored(o)

SpecMobile == InitMobile /\ [][NextMobile]_vars

----------------------------------------------------------------------------
(* SpecToken: the token service and the verification paths applied to
   generated and hand-made tokens *)

TkUsers ==
  {NewUserDoc(IdSeq[1], g, e, n, None) :
     g \in GoogleIds, e \in RawEmails, n \in Names \ {""}}

\* tokens made outside the server: any signature, issuer, audience, subject
ForgedTokens(clock) ==
  {[kind |-> "jwt", userId |-> id, email |-> "a@x", name |-> "n1",
    iss |-> i, aud |-> a, iat |-> clock, exp |-> clock + TOKEN_TTL_DAYS, sig |-> s] :
     id \in ObjectIds, i \in {ISSUER, "evil-api", None},
     a \in {AUDIENCE, "evil-client", None}, s \in {JWT_SECRET, "wrong-secret"}}
  \cup {Malformed}

InitToken ==
  /\ tkUser \in TkUsers
  /\ users \in {<<>>, (tkUser.id :> tkUser)}
  /\ nextId = 1
  /\ now = 0
  /\ cb = [p \in Procs |-> IdleCb]
  /\ resp = NoExchange
  /\ nodeEnv = "production"
  /\ tkTok = [origin |-> "absent", hdr |-> NoHeader]
  /\ tkOut = NoOut
  /\ sessions = [a \in Procs |-> NoSession]
  /\ boot = NoBoot
  /\ mob = NoMobile
  /\ own = NoOwn

\* generateToken(tkUser), sent as a Bearer header or under another scheme
TkGenerate ==
  /\ \E h \in {Bearer(generateToken(tkUser, now)), Basic(generateToken(tkUser, now))} :
       tkTok' = [origin |-> "generated", hdr |-> h]
  /\ tkOut' = NoOut
  /\ UNCHANGED <<users, nextId, now, cb, resp, nodeEnv, tkUser, sessions, boot, own, mob>>

TkForge ==
  /\ \E t \in ForgedTokens(now) : tkTok' = [origin |-> "forged", hdr |-> Bearer(t)]
  /\ tkOut' = NoOut
  /\ UNCHANGED <<users, nextId, now, cb, resp, nodeEnv, tkUser, sessions, boot, own, mob>>

TkNoHeader ==
  /\ tkTok' = [origin |-> "absent", hdr |-> NoHeader]
  /\ tkOut' = NoOut
  /\ UNCHANGED <<users, nextId, now, cb, resp, nodeEnv, tkUser, sessions, boot, own, mob>>

TkTick ==
  /\ now + TickDays <= MaxNow
  /\ now' = now + TickDays
  /\ UNCHANGED <<users, nextId, cb, resp, nodeEnv, tkUser, tkTok, tkOut, sessions, boot, own, mob>>

\* one call of each verification path on the token under test
TkVerify ==
  /\ tkOut' = [at |-> now,
               verify |-> verifyToken(tkTok.hdr.tok, now),
               validate |-> validateToken(tkTok.hdr, users, now),
               require |-> requireAuth(tkTok.hdr, users, now),
               optional |-> optionalAuth(tkTok.hdr, users, now),
               optionalOnError |->
                 optionalAuthCallback(PassportError("User.findById rejected"))]
  /\ UNCHANGED <<users, nextId, now, cb, resp, nodeEnv, tkUser, tkTok, sessions, boot, own, mob>>

NextToken == TkGenerate \/ TkForge \/ TkNoHeader \/ TkTick \/ TkVerify

SpecToken == InitToken /\ [][NextToken]_vars

----------------------------------------------------------------------------
(* Claims about the API routers (SpecApi) *)

\* the routes whose handler compares req.user._id with the id in the path
OwnershipGated ==
  UserRoutesById \cup {"POST /api/upload/profile/:userId",
                       "POST /api/upload/audio/:userId"}

\* the routes that include requireAuth
Protected(ep) == \E i \in 1..Len(Pipeline(ep)) : Pipeline(ep)[i] = "requireAuth"

HasMiddleware(ep, name) == \E i \in 1..Len(Pipeline(ep)) : Pipeline(ep)[i] = name

\* the step is a request, within the rate limit, to an ownership-gated route
\* with a valid token of an identity A that names another identity B
CrossIdentityRequest ==
  /\ resp = NoExchange /\ resp' # NoExchange
  /\ resp'.req.ep \in OwnershipGated
  /\ ~resp'.req.limited
  /\ requireAuth(resp'.req.hdr, users, now).next
  /\ resp'.req.id \in DOMAIN users
  /\ requireAuth(resp'.req.hdr, users, now).user.id # resp'.req.id

\* C1: on every ownership-gated endpoint a request with a valid token for A
\* that names B's id (A # B) is answered 403 ACCESS_DENIED and B's stored
\* record is unchanged.
C1_CrossIdentityDenied ==
  [][CrossIdentityRequest =>
       /\ resp'.res.status = 403
       /\ resp'.res.code = "ACCESS_DENIED"
       /\ resp'.req.id \in DOMAIN users'
       /\ users'[resp'.req.id] = users[resp'.req.id]]_vars

\* a response is in flight for a request to a protected route that carried no
\* Authorization header
NoHeaderExchange ==
  /\ resp # NoExchange
  /\ Protected(resp.req.ep)
  /\ resp.req.hdr = NoHeader

TokenClass(hdr, store, clock) ==
  LET v == verifyToken(ExtractBearer(hdr), clock)
  IN  IF ExtractBearer(hdr).kind = "none" THEN "none"
      ELSE IF v.err = "TokenExpiredError" THEN "expired"
      ELSE IF ~v.ok THEN "invalid"
      ELSE IF v.payload.userId \in DOMAIN store THEN "valid"
      ELSE "orphan"

\* a response of POST /auth/verify is in flight
VerifyExchange == resp # NoExchange /\ resp.req.ep = "POST /auth/verify"

RejectedWithEnvelope(res, error) ==
  res.status = 401 /\ res.kind = "json" /\ res.error = error

\* C11: POST /auth/verify answers 401 with a JSON envelope whose error is
\* 'Authentication required' for no token, 'Invalid token' for an invalid
\* token and 'Token expired' for an expired one, and 200 with the identity's
\* id and email for the valid token of a stored identity.
C11_VerifyAnswers ==
  VerifyExchange =>
    LET c == TokenClass(resp.req.hdr, users, now)
    IN  /\ c = "none" => RejectedWithEnvelope(resp.res, "Authentication required")
        /\ c = "invalid" => RejectedWithEnvelope(resp.res, "Invalid token")
        /\ c = "expired" => RejectedWithEnvelope(resp.res, "Token expired")
        /\ c = "valid" =>
             /\ resp.res.status = 200
             /\ resp.res.data.id = resp.req.hdr.tok.userId
             /\ resp.res.data.email = users[resp.req.hdr.tok.userId].email

\* the step is a request that reaches requireAuth with the unexpired,
\* correctly signed token of an identity that has been deleted
OrphanRequest ==
  /\ resp = NoExchange /\ resp' # NoExchange
  /\ Protected(resp'.req.ep)
  /\ ~resp'.req.limited
  /\ HasMiddleware(resp'.req.ep, "validateObjectId") => IsValidObjectId(resp'.req.id)
  /\ TokenClass(resp'.req.hdr, users, now) = "orphan"
  /\ resp'.req.hdr.tok.userId \in DeletedIds(users, nextId)

\* C12: a protected request that presents the still valid token of a deleted
\* identity is rejected before the handler runs, with a code that differs
\* from the codes of the missing-token and invalid-token rejections.
C12_DeletedSubjectDistinctRejection ==
  [][OrphanRequest =>
       /\ ~resp'.ran
       /\ resp'.res.status = 401
       /\ resp'.res.code # requireAuth(NoHeader, users, now).code
       /\ resp'.res.code # requireAuth(Bearer(Malformed), users, now).code]_vars

\* the step is a POST /auth/verify, or a request that the authentication
\* middleware answered itself
VerifyStep ==
  /\ resp = NoExchange /\ resp' # NoExchange
  /\ resp'.req.ep = "POST /auth/verify" \/ ~resp'.ran

\* C13: verifying a token changes no state: the identity store and the
\* session store are as before, and the same request sent again gets the
\* same answer, with the same identity.
C13_VerifyChangesNothing ==
  [][VerifyStep =>
       /\ users' = users
       /\ sessions' = sessions
       /\ RunPipeline(1, resp'.req, NoDoc, users', now', nodeEnv').res = resp'.res
       /\ (resp'.req.ep = "POST /auth/verify"
           /\ TokenClass(resp'.req.hdr, users, now) = "valid")
          => resp'.res.data = users'[resp'.req.hdr.tok.userId]]_vars

\* a POST /auth/verify with the valid token of an identity whose name had
\* been changed by an earlier request was answered with that identity
C13_Witness ==
  /\ VerifyExchange
  /\ resp.res.status = 200
  /\ resp.res.data.name = "n2"
  /\ resp.res.data = users[resp.req.hdr.tok.userId]

\* the step is a POST /auth/logout with the valid token of a stored identity
LogoutStep ==
  /\ resp = NoExchange /\ resp' # NoExchange
  /\ resp'.req.ep = "POST /auth/logout"
  /\ TokenClass(resp'.req.hdr, users, now) = "valid"

\* C14: POST /auth/logout with a valid token answers success and changes no
\* server state; the same token is accepted by requireAuth and by the JWT
\* strategy afterwards, for the same identity.
C14_LogoutIsNoOp ==
  [][LogoutStep =>
       /\ resp'.res.status = 200
       /\ resp'.res.kind = "json"
       /\ resp'.res.message = "Logged out successfully"
       /\ users' = users
       /\ sessions' = sessions
       /\ requireAuth(resp'.req.hdr, users', now').next
       /\ requireAuth(resp'.req.hdr, users', now').user.id = resp'.req.hdr.tok.userId
       /\ PassportAuthenticate(resp'.req.hdr, users', now').next]_vars

\* a logout with the valid token of one of two stored identities was answered
C14_Witness ==
  /\ resp.req.ep = "POST /auth/logout"
  /\ resp.res.status = 200
  /\ resp.req.hdr.tok.userId \in DOMAIN users
  /\ Cardinality(DOMAIN users) = 2

----------------------------------------------------------------------------
(* Claims about the start of the server and environment validation (SpecBoot) *)

\* the rules of the schema that the environment violates, as (key, rule) pairs
ViolatedRules(env) ==
  {d \in [key : EnvVarSet,
          type : {"any.required", "string.empty", "any.only", "string.uri",
                  "string.min", "string.max", "string.pattern.base"}] :
     LET val == env[d.key]
     IN  \/ ~val.present /\ Required(d.key) /\ d.type = "any.required"
         \/ val.present /\ val.empty /\ d.type = "string.empty"
         \/ val.present /\ ~val.empty /\ d.type \in val.breaks}

\* the variables that are missing or malformed
Offending(env) == {d.key : d \in ViolatedRules(env)}

NamedIn(printed) == {printed[i].key : i \in 1..Len(printed)}

\* C15: the server listens only after environment validation has succeeded;
\* with a missing or malformed variable the process exits with a non-zero
\* code before the database connection and before app.listen, and the
\* printed report names the offending variables.
C15_InvalidEnvironmentStopsStart ==
  /\ boot.listening => ~validateEnvironment(boot.env).threw
  /\ Offending(boot.env) # {} =>
       /\ boot.pc \in {"start", "loaded", "exited"}
       /\ ~boot.db /\ ~boot.listening
       /\ boot.pc = "exited" =>
            /\ boot.exitCode > 0
            /\ Offending(boot.env) \subseteq NamedIn(boot.stderr.printed)

\* C16: validateEnvironment reports every violated rule: with k violated
\* rules it throws an error that counts k, after printing each of the k
\* messages; with none it does not throw.
C16_AllViolationsReported ==
  \A r \in {boot.script, boot.stderr} :
    (r # NoValidation \/ boot.scriptRan) =>
      /\ r.threw = (r.count > 0)
      /\ (r = boot.script \/ r.threw) =>
           /\ r.count = Cardinality(ViolatedRules(boot.env))
           /\ \A d \in ViolatedRules(boot.env) :
                \E i \in 1..Len(r.printed) : r.printed[i] = d

\* the script reported three or more violations, two of them on one variable
C16_Witness ==
  /\ boot.scriptRan
  /\ boot.script.count >= 3
  /\ \E i, j \in 1..Len(boot.script.printed) :
       /\ i # j
       /\ boot.script.printed[i].key = boot.script.printed[j].key
  /\ \E i \in 1..Len(boot.script.printed) : boot.script.printed[i].key = "JWT_SECRET"

----------------------------------------------------------------------------
(* Claims about the OAuth exchange flow (SpecOAuth) *)

WithGoogleId(store, gid) == {id \in DOMAIN store : store[id].googleId = gid}
EmailHeldByOther(store, email, gid) ==
  \E id \in DOMAIN store : store[id].email = Lower(email) /\ store[id].googleId # gid
CompleteProfile(prof) == prof.email # None /\ prof.displayName # ""

\* two callbacks for the same provider id that both started while no
\* identity had it, and both ended
RacedNewId(p, q) ==
  /\ p # q
  /\ cb[p].pc = "done" /\ cb[q].pc = "done"
  /\ cb[p].profile.id # None
  /\ cb[p].profile.id = cb[q].profile.id
  /\ cb[p].fresh /\ cb[q].fresh

ConvergedOrConstraint(r, gid) ==
  \/ cb[r].err.name = None /\ {cb[r].user.id} = WithGoogleId(users, gid)
  \/ cb[r].err.code = "11000"

\* the user agent has the answer of GET /auth/google and was not yet sent
\* back by the provider
AfterAuthGoogle(a) == cb[a].pc # "idle" /\ cb[a].profile = NoProfile

\* the user agent has the answer of a callback whose verification produced
\* an identity
AfterSuccessfulCallback(a) ==
  /\ cb[a].pc = "done"
  /\ cb[a].profile # NoProfile
  /\ cb[a].err.name = None
  /\ cb[a].user.id # None

\* C17: GET /auth/google?redirect_uri=R stores R in the caller's session and
\* answers 302 to the provider; the next successful callback of that session
\* redirects to R (to the default scheme URI when no R was supplied) with the
\* token and the identity payload, and afterwards the session holds no
\* redirect URI.  Violated: the routers are mounted before the session
\* middleware, so the /auth handlers have no req.session.
C17_RedirectUriRoundTrip ==
  \A a \in Procs :
    /\ (AfterAuthGoogle(a) /\ cb[a].redirectUri # None)
         => /\ cb[a].out.status = 302
            /\ cb[a].out.location = ProviderUrl
            /\ sessions[a].mobileRedirectUri = cb[a].redirectUri
    /\ AfterSuccessfulCallback(a)
         => /\ cb[a].out.kind = "redirect"
            /\ cb[a].out.location = (IF cb[a].redirectUri # None THEN cb[a].redirectUri
                                     ELSE DefaultRedirectUri)
            /\ cb[a].out.token # NoToken
            /\ cb[a].out.data = UserData(cb[a].user)
            /\ sessions[a].mobileRedirectUri = None

\* a redirect URI of the mobile client: one of the configured app scheme
BelongsToApp(uri) == uri \in {DefaultRedirectUri, "exp://app/auth"}

UniqueIdentities(store) ==
  \A i, j \in DOMAIN store :
    i # j => /\ Lower(store[i].email) # Lower(store[j].email)
             /\ store[i].googleId # None => store[i].googleId # store[j].googleId

\* an API request has just been answered with an error status
RequestFailed == resp = NoExchange /\ resp' # NoExchange /\ resp'.res.status >= 400

\* a callback's write (save or create) has just been rejected
CallbackWriteFailed ==
  \E p \in Procs : cb[p].pc \in {"save", "create"} /\ cb'[p].pc = "done"
                   /\ cb'[p].err.name # None

\* C19: in every reachable state of the identity store no two identities have
\* the same lower-cased email or the same provider id, whatever the
\* interleaving of OAuth callbacks, POST /api/users, updates and deletes; an
\* operation that fails leaves the store unchanged.
C19_IdentitiesStayUnique ==
  /\ [](UniqueIdentities(users))
  /\ [][(RequestFailed \/ CallbackWriteFailed) => users' = users]_vars

\* C19 witness: two identities are stored, an update that would have given
\* one the other's provider id or email was answered 409, and a callback's
\* write was rejected by a unique index
C19_Witness ==
  /\ Cardinality(DOMAIN users) = 2
  /\ resp.req.ep = "PUT /api/users/me"
  /\ resp.res.code = "DUPLICATE_ENTRY"
  /\ \E p \in Procs : cb[p].pc = "done" /\ cb[p].err.code = "11000"

\* the order of the onboarding steps
StepRank(step) ==
  IF step = "welcome" THEN 1
  ELSE IF step = "first-entry" THEN 2
  ELSE IF step = "persona-intro" THEN 3
  ELSE 4

\* C20: the onboarding step of every identity stays in the closed set and no
\* operation moves it to an earlier step of welcome < first-entry <
\* persona-intro < completed.  Violated: PUT /api/users/me stores any step of
\* the set, an earlier one included.
C20_OnboardingOnlyForward ==
  /\ [](\A id \in DOMAIN users : users[id].onbStep \in Steps)
  /\ [][\A id \in DOMAIN users \cap DOMAIN users' :
          StepRank(users'[id].onbStep) >= StepRank(users[id].onbStep)]_vars

BearerValid(hdr, store, clock) ==
  /\ hdr.scheme = "Bearer"
  /\ hdr.tok.kind = "jwt"
  /\ hdr.tok.sig = JWT_SECRET
  /\ clock < hdr.tok.exp
  /\ hdr.tok.userId \in DOMAIN store

\* a request to a protected endpoint with a session cookie and no valid
\* bearer token has just been answered
CookieOnlyRequest ==
  /\ resp = NoExchange /\ resp' # NoExchange
  /\ Protected(resp'.req.ep)
  /\ resp'.req.cookie # None
  /\ ~BearerValid(resp'.req.hdr, users, now)

NoLoginSession == \A a \in Procs : sessions[a].user = None

C26_OwnershipGate ==
  own.called =>
    /\ own.user = None => (own.out.status = 401 /\ own.out.code = "UNAUTHORIZED")
    /\ (own.user # None /\ own.param = None /\ own.body = None /\ own.resource = None)
         => (own.out.status = 400 /\ own.out.code = "RESOURCE_USER_ID_MISSING")
    /\ (own.user # None /\ own.param = None /\ own.resource # None
        /\ own.resource # own.user)
         => (own.out.status = 403 /\ own.out.code = "ACCESS_DENIED")
    /\ own.out.next => (own.user # None /\ own.user \in {own.param, own.body, own.resource})

\* C3 as claimed: after two concurrent callbacks for the same brand-new
\* provider id exactly one identity has that provider id, and each callback
\* converged on it or ended with a constraint error.
C3_ConcurrentCallbacksOneIdentity ==
  \A p, q \in Procs :
    RacedNewId(p, q) =>
      /\ Cardinality(WithGoogleId(users, cb[p].profile.id)) = 1
      /\ \A r \in {p, q} : ConvergedOrConstraint(r, cb[p].profile.id)

\* C3 as amended: the same, for callbacks whose profiles carry an email that
\* no identity of another provider id holds and a non-empty display name;
\* whatever the profiles are, no two identities share the provider id.
C3_ConcurrentCallbacksOneIdentityAmended ==
  \A p, q \in Procs :
    RacedNewId(p, q) =>
      /\ Cardinality(WithGoogleId(users, cb[p].profile.id)) <= 1
      /\ (\A r \in {p, q} :
             /\ CompleteProfile(cb[r].profile)
             /\ ~EmailHeldByOther(users, cb[r].profile.email, cb[r].profile.id))
         => /\ Cardinality(WithGoogleId(users, cb[p].profile.id)) = 1
            /\ \A r \in {p, q} : ConvergedOrConstraint(r, cb[p].profile.id)

\* C3 witness: both callbacks missed the identity in findOne, one created
\* it and the other's create hit the unique index
C3_Witness ==
  \E p, q \in Procs :
    /\ RacedNewId(p, q)
    /\ cb[p].wrote = "create"
    /\ cb[q].err.code = "11000"
    /\ Cardinality(WithGoogleId(users, cb[p].profile.id)) = 1

\* the create branch of callback p runs to its end in this step
CreateStep(p) == cb[p].pc = "create" /\ cb'[p].pc = "done"
\* the update branch of callback p runs to its end in this step
SaveStep(p) == cb[p].pc = "save" /\ cb'[p].pc = "done"

CreatedWithDefaults(p) ==
  /\ Cardinality(DOMAIN users') = Cardinality(DOMAIN users) + 1
  /\ cb'[p].user.id \in DOMAIN users' \ DOMAIN users
  /\ LET d == users'[cb'[p].user.id]
     IN  /\ d.googleId = cb[p].profile.id
         /\ d.totalEntries = 0
         /\ d.streakDays = 0
         /\ d.onbStep = "welcome"
         /\ d.onbCompleted = FALSE

\* C4 as claimed: a callback whose provider id is not in the store and whose
\* profile has an email creates exactly one identity, with totalEntries 0,
\* streakDays 0, onboarding step welcome and onboarding not completed.
C4_NewIdCreatesOneIdentity ==
  [][\A p \in Procs :
       (/\ CreateStep(p)
        /\ WithGoogleId(users, cb[p].profile.id) = {}
        /\ cb[p].profile.email # None)
       => CreatedWithDefaults(p)]_vars

\* C4 as amended: the same when, in addition, no stored identity holds the
\* profile's email (compared in lower case) and the display name is not
\* empty; in every other case the create branch leaves the store unchanged
\* and ends with an error.
C4_NewIdCreatesOneIdentityAmended ==
  [][\A p \in Procs :
       CreateStep(p) =>
         IF /\ WithGoogleId(users, cb[p].profile.id) = {}
            /\ CompleteProfile(cb[p].profile)
            /\ ~EmailHeldByOther(users, cb[p].profile.email, cb[p].profile.id)
           THEN CreatedWithDefaults(p)
           ELSE users' = users /\ cb'[p].err.name # None]_vars

\* C4 witness: a callback created an identity next to an existing one
C4_Witness ==
  \E p \in Procs :
    /\ cb[p].pc = "done"
    /\ cb[p].wrote = "create"
    /\ Cardinality(DOMAIN users) = 2

\* C5: a callback whose provider id is already in the store (and whose
\* profile has a display name) leaves the identity with the profile's name
\* and Google avatar, and the number of identities unchanged.
C5_KnownIdRefreshesNameAndAvatar ==
  [][\A p \in Procs :
       (SaveStep(p) /\ cb[p].profile.displayName # "")
       => /\ Cardinality(DOMAIN users') = Cardinality(DOMAIN users)
          /\ \A id \in WithGoogleId(users', cb[p].profile.id) :
               /\ users'[id].name = cb[p].profile.displayName
               /\ users'[id].googleImage = cb[p].profile.photo]_vars

\* C23: when a callback updates an existing identity with the provider's
\* data, the identity's email stays as it was; only the name and the Google
\* avatar are refreshed.  Violated: the update branch also assigns the
\* profile's email.
C23_UpdateKeepsEmail ==
  [][\A p \in Procs :
       SaveStep(p)
       => \A id \in WithGoogleId(users, cb[p].profile.id) \cap DOMAIN users' :
            users'[id].email = users[id].email]_vars

\* C24: within one callback the token is minted after the identity has been
\* created or updated and persisted: a token is signed only by a callback
\* whose write succeeded, its subject is the id of a record that is in the
\* store at that moment, and its email and name claims are that record's
\* persisted values.  Violated: the token is signed from the document the
\* callback holds in memory, and the save writes only the paths this callback
\* changed, so a concurrent callback's write to another path is in the store
\* and not in the token.
C24_TokenAfterPersist ==
  [][\A p \in Procs :
       ((SaveStep(p) \/ CreateStep(p)) /\ cb'[p].token # NoToken)
       => /\ cb'[p].wrote \in {"update", "create"}
          /\ cb'[p].token.userId \in DOMAIN users'
          /\ cb'[p].token.email = users'[cb'[p].token.userId].email
          /\ cb'[p].token.name = users'[cb'[p].token.userId].name]_vars

\* C6: a callback whose profile has no email ends in the failure "no email
\* from provider", for unknown and for known provider ids: it creates and
\* modifies no identity and delivers no token.
C6_NoEmailIsTerminalFailure ==
  \A p \in Procs :
    (/\ cb[p].pc = "done"
     /\ cb[p].profile.id # None
     /\ cb[p].profile.email = None)
    => /\ cb[p].err.message = "No email provided by Google"
       /\ cb[p].wrote = "none"
       /\ cb[p].out.token = NoToken

\* C7: when lookup, creation, update or token minting fails, the callback
\* answers with a redirect to /auth/error carrying one of the coded reasons,
\* and the exception's message is not in the response.
C7_FailuresRedirectWithCode ==
  \A p \in Procs :
    (/\ cb[p].pc = "done"
     /\ cb[p].err.name # None)
    => /\ cb[p].out.kind = "redirect"
       /\ cb[p].out.location = "/auth/error"
       /\ cb[p].out.message \in {"authentication_failed", "token_generation_failed",
                                 "user_creation_failed"}
       /\ cb[p].out.error # cb[p].err.message

----------------------------------------------------------------------------
(* Claims about the token service and the verification paths (SpecToken) *)

TkChecked == tkOut.at # -1
TkTokenOf == tkTok.hdr.tok
TkBearerJwt == tkTok.hdr.scheme = "Bearer" /\ TkTokenOf.kind = "jwt"

\* the token under test is one the token service accepts as the data model
\* describes it: a Bearer JWT signed with the server secret, unexpired, with
\* the expected issuer and audience, whose subject is a stored identity
TkValid ==
  /\ TkBearerJwt
  /\ TkTokenOf.sig = JWT_SECRET
  /\ tkOut.at < TkTokenOf.exp
  /\ TkTokenOf.iss = ISSUER /\ TkTokenOf.aud = AUDIENCE
  /\ TkTokenOf.userId \in DOMAIN users

\* C22: optional-mode authentication never fails a request: with a missing,
\* invalid or expired token, a token of a deleted identity or an error during
\* the lookup it calls next with an empty identity context, and with a valid
\* token it calls next with the loaded identity.  Violated: a token with a
\* foreign issuer or audience is not a valid one, yet its identity is attached.
C22_OptionalAuthNeverFails ==
  TkChecked =>
    /\ tkOut.optional.next
    /\ tkOut.optionalOnError.next
    /\ tkOut.optionalOnError.user = NoDoc
    /\ tkOut.optional.user = (IF TkValid THEN users[TkTokenOf.userId] ELSE NoDoc)

\* C22 without the tokens of C8: the same, for every token whose issuer and
\* audience are the expected ones
C22_ExceptForeignIssuerAudience ==
  (TkChecked /\ (TkBearerJwt => TkTokenOf.iss = ISSUER /\ TkTokenOf.aud = AUDIENCE))
    => /\ tkOut.optional.next
       /\ tkOut.optionalOnError.next
       /\ tkOut.optionalOnError.user = NoDoc
       /\ tkOut.optional.user = (IF TkValid THEN users[TkTokenOf.userId] ELSE NoDoc)

\* C8: a correctly signed, unexpired token whose issuer or audience is not the
\* expected constant (or is absent) is rejected by verifyToken, by
\* validateToken and by the JWT strategy behind requireAuth.
C8_IssuerAudienceEnforced ==
  (/\ TkChecked
   /\ TkBearerJwt
   /\ TkTokenOf.sig = JWT_SECRET
   /\ tkOut.at < TkTokenOf.exp
   /\ (TkTokenOf.iss # ISSUER \/ TkTokenOf.aud # AUDIENCE))
  => (/\ ~tkOut.verify.ok
      /\ ~tkOut.validate.next
      /\ ~tkOut.require.next)

\* C9: verifyToken(generateToken(u)) before expiry returns claims with
\* userId, email and name of u, the fixed issuer and audience, and an expiry
\* 30 days after issued-at.
C9_IssueVerifyRoundTrip ==
  (/\ TkChecked
   /\ tkTok.origin = "generated"
   /\ tkOut.at < TkTokenOf.iat + TOKEN_TTL_DAYS)
  => (/\ tkOut.verify.ok
      /\ tkOut.verify.payload.userId = tkUser.id
      /\ tkOut.verify.payload.email = tkUser.email
      /\ tkOut.verify.payload.name = tkUser.name
      /\ tkOut.verify.payload.iss = "persona-arcana-api"
      /\ tkOut.verify.payload.aud = "persona-arcana-mobile"
      /\ tkOut.verify.payload.exp = tkOut.verify.payload.iat + TOKEN_TTL_DAYS)

\* C9 witness: a generated token verified some days after it was issued
C9_Witness ==
  /\ TkChecked
  /\ tkTok.origin = "generated"
  /\ tkOut.at > TkTokenOf.iat
  /\ tkOut.at < TkTokenOf.iat + TOKEN_TTL_DAYS
  /\ tkOut.verify.ok

\* C10: requireAuth answers a missing token with NO_TOKEN/UNAUTHORIZED, a
\* badly signed or unparsable token with INVALID_TOKEN and a correctly signed
\* expired token with TOKEN_EXPIRED, each with status 401.
C10_DistinctTokenFailureCodes ==
  TkChecked =>
    /\ (tkTok.hdr.scheme = None =>
          /\ tkOut.require.status = 401
          /\ tkOut.require.code \in {"NO_TOKEN", "UNAUTHORIZED"})
    /\ ((/\ tkTok.hdr.scheme = "Bearer"
         /\ (TkTokenOf.kind = "garbage" \/ (TkTokenOf.kind = "jwt" /\ TkTokenOf.sig # JWT_SECRET)))
        => (/\ tkOut.require.status = 401
            /\ tkOut.require.code = "INVALID_TOKEN"))
    /\ ((/\ TkBearerJwt
         /\ TkTokenOf.sig = JWT_SECRET
         /\ tkOut.at >= TkTokenOf.exp)
        => (/\ tkOut.require.status = 401
            /\ tkOut.require.code = "TOKEN_EXPIRED"))

-----------------------------------------------------------------------------
(* Claims about the mobile client *)

\* a step in which signOut completes
SignOutCompletes == mob.out.pc = "logout" /\ mob'.out.pc = "idle"

\* the context state signOut leaves behind
SignedOutAfter ==
  /\ mob'.user = None
  /\ mob'.authToken = None
  /\ mob'.isAuthenticated = FALSE
  /\ mob'.loading = FALSE

MobileIdle ==
  /\ mob.check.pc = "idle"
  /\ mob.signIn.pc = "idle"
  /\ mob.out.pc = "idle"
  /\ mob.upd.pc = "idle"

\* C28: whenever no auth operation is in flight, isAuthenticated is true
\* exactly when user and authToken are both non-null
C28_AuthenticatedIffUserAndToken ==
  MobileIdle =>
    (mob.isAuthenticated <=> (mob.user # None /\ mob.authToken # None))

-----------------------------------------------------------------------------
(* Claims about the frame of updates and about unauthenticated requests *)

\* a step in which a request to one of the endpoints eps is handled
Handles(eps) ==
  /\ resp = NoExchange
  /\ resp' # NoExchange
  /\ resp'.req.ep \in eps

\* C29: PUT /api/users/me and PUT /api/users/:id change only name,
\* profileImage, preferences, onboarding and updatedAt: whatever the body,
\* extra keys included, every identity's email, googleId and stats are the
\* same after the request as before
C29_UpdateKeepsIdentityFields ==
  [][Handles({"PUT /api/users/me", "PUT /api/users/:id"}) =>
       \A id \in DOMAIN users \cap DOMAIN users' :
         /\ users'[id].email = users[id].email
         /\ users'[id].googleId = users[id].googleId
         /\ users'[id].totalEntries = users[id].totalEntries
         /\ users'[id].streakDays = users[id].streakDays]_vars

\* the request of an exchange carries a bearer token requireAuth accepts
Authenticated(req) == requireAuth(req.hdr, users, now).next

\* the identity requireAuth attaches to the request
AuthenticatedAs(req) == requireAuth(req.hdr, users, now).user.id

\* the records a response carries
RecordsOf(res) ==
  (IF res.data # NoDoc THEN {res.data.id} ELSE {})
    \cup {res.list[k].id : k \in DOMAIN res.list}

\* C30: no handler under /api/users runs before the authorization middleware
\* has validated a bearer token: a response with identity B's record goes only
\* to a request authenticated as B, and a request without a valid token reads
\* no identity's data and creates no identity
C30_NoHandlerBeforeAuth ==
  [][(resp = NoExchange /\ resp' # NoExchange) =>
       /\ \A b \in RecordsOf(resp'.res) :
            Authenticated(resp'.req) /\ AuthenticatedAs(resp'.req) = b
       /\ ~Authenticated(resp'.req) => DOMAIN users' \subseteq DOMAIN users]_vars

====
